---- MODULE Spec2Model ----
(***************************************************************************)
(* Model of the HAR/Swagger -> JMeter test-plan generation engine:         *)
(* the three edge functions' serializers, the grouping they perform, the   *)
(* AI provider calls of the request handlers and the XML repair pass.      *)
(*                                                                         *)
(* Strings are sequences of characters (one-character TLA+ strings); a     *)
(* fixed program word the code never looks into (a method name, a number   *)
(* rendered by a template) is one atom.  Documents are sequences of        *)
(* tokens <<kind, name, attr>>:                                            *)
(*   "open"   <name attr...>          "close"  </name>                     *)
(*   "empty"  <name attr.../>         "text"   one character of content    *)
(*   "obegin" <name ... testname="    "oend"   " enabled="true">           *)
(*   "ws"     "\n" or a run of blanks "comment", "decl"                    *)
(* Between an "obegin" and its "oend" the text tokens are the attribute    *)
(* value.  White space between tags is kept where the code's string        *)
(* matching reads it (the document tail, after a thread-group opening).    *)
(***************************************************************************)
EXTENDS Integers, Sequences, FiniteSets, TLC

VARIABLES
    endpoint,     \* which handler / function this request runs
    pc,           \* position of the handler
    entries,      \* harData.log.entries
    analysis,     \* the AI analysis object handed to the serializer
    loadConfig,   \* the load profile and feature flags
    swaggerSpec,  \* the contract's paths, in key order
    doc,          \* the document string being produced / repaired
    groups,       \* thread groups in emission order: <<key, members>>
    config,       \* aiProvider of the request and the API keys of the deployment
    calls,        \* provider HTTP calls made by this request, in order
    resp,         \* the HTTP response of the handler
    hasShape,     \* the input document has log.entries / paths
    insightReply, \* the body of the provider's answer, as the analysis step reads it
    requestSchema, \* the request-body schema handed to generateSampleData
    sample,       \* what generateSampleData returned
    harResult,    \* the client's stored result of processHar
    toast         \* the title of the toast processHar showed

vars == <<endpoint, pc, entries, analysis, loadConfig, swaggerSpec, doc,
          groups, config, calls, resp, hasShape, insightReply,
          requestSchema, sample, harResult, toast>>

(***************************************************************************)
(* Tokens                                                                  *)
(***************************************************************************)
O(n) == <<"open", n, "">>
OA(n, a) == <<"open", n, a>>
C(n) == <<"close", n, "">>
E(n) == <<"empty", n, "">>
EA(n, a) == <<"empty", n, a>>
T(c) == <<"text", c, "">>
OB(n) == <<"obegin", n, "">>
OE(n) == <<"oend", n, "">>
NL == <<"ws", "\n", "">>
CRLF == <<"ws", "\r\n", "">>
SP == <<"ws", " ", "">>
Comment(s) == <<"comment", s, "">>
XmlDecl == <<"decl", "xml", "">>

Txt(s) == [i \in 1..Len(s) |-> T(s[i])]

\* the concatenation of a sequence of sequences (Array.prototype.join(''))
RECURSIVE Flat(_)
Flat(ss) ==
    IF ss = <<>> THEN <<>>
    ELSE IF Len(ss) = 1 THEN ss[1]
    ELSE Flat(SubSeq(ss, 1, Len(ss) \div 2)) \o Flat(SubSeq(ss, Len(ss) \div 2 + 1, Len(ss)))

Prop(tag, name, text) == <<OA(tag, name)>> \o text \o <<C(tag)>>

Min(a, b) == IF a < b THEN a ELSE b

(***************************************************************************)
(* escapeXml: text.replace(/[<>&'"]/g, c => entity).  An entity is the     *)
(* character & followed by the rest of the entity.                         *)
(***************************************************************************)
EscapeChar(c) ==
    CASE c = "<" -> <<"&", "lt;">>
      [] c = ">" -> <<"&", "gt;">>
      [] c = "&" -> <<"&", "amp;">>
      [] c = "'" -> <<"&", "apos;">>
      [] c = "\"" -> <<"&", "quot;">>
      [] OTHER -> <<c>>

escapeXml(text) == Flat([i \in 1..Len(text) |-> EscapeChar(text[i])])

(***************************************************************************)
(* String.prototype.includes on strings and on documents                   *)
(***************************************************************************)
IncludesAt(s, p, i) == i + Len(p) - 1 <= Len(s) /\ SubSeq(s, i, i + Len(p) - 1) = p

Includes(s, p) == \E i \in 1..(Len(s) + 1) : IncludesAt(s, p, i)

\* the document text contains the fixed word w: as a tag name, in an
\* attribute value the model keeps as one word, or as a text atom
Mentions(d, w) == \E i \in 1..Len(d) : d[i][2] = w \/ d[i][3] = w

IsText(d, i) == i \in 1..Len(d) /\ d[i][1] = "text"

(***************************************************************************)
(* Plain objects used as maps: own keys in insertion order, and            *)
(* Object.entries, which lists integer-index keys first, ascending, and    *)
(* then the other keys in insertion order.                                 *)
(***************************************************************************)
Digits == <<"0", "1", "2", "3", "4", "5", "6", "7", "8", "9">>

DigitVal(c) == (CHOOSE i \in 1..10 : Digits[i] = c) - 1

IsDigit(c) == \E i \in 1..10 : Digits[i] = c

\* a canonical array index: decimal digits, no leading zero
IsIndexKey(k) ==
    /\ Len(k) > 0
    /\ \A i \in 1..Len(k) : IsDigit(k[i])
    /\ (Len(k) > 1 => k[1] # "0")

RECURSIVE IndexVal(_)
IndexVal(k) == IF k = <<>> THEN 0
               ELSE 10 * IndexVal(SubSeq(k, 1, Len(k) - 1)) + DigitVal(k[Len(k)])

ObjHas(obj, k) == \E i \in 1..Len(obj) : obj[i][1] = k

\* if (!obj[k]) obj[k] = []; obj[k].push(v)
ObjPush(obj, k, v) ==
    IF ObjHas(obj, k)
    THEN [i \in 1..Len(obj) |->
            IF obj[i][1] = k THEN <<k, Append(obj[i][2], v)>> ELSE obj[i]]
    ELSE Append(obj, <<k, <<v>>>>)

RECURSIVE SortByIndex(_)
SortByIndex(es) ==
    IF es = <<>> THEN <<>>
    ELSE LET m == CHOOSE i \in 1..Len(es) :
                    \A j \in 1..Len(es) : IndexVal(es[i][1]) <= IndexVal(es[j][1])
         IN <<es[m]>> \o SortByIndex(SubSeq(es, 1, m - 1) \o SubSeq(es, m + 1, Len(es)))

IsIndexEntry(e) == IsIndexKey(e[1])

IsNamedEntry(e) == ~IsIndexKey(e[1])

ObjectEntries(obj) ==
    SortByIndex(SelectSeq(obj, IsIndexEntry)) \o SelectSeq(obj, IsNamedEntry)

(***************************************************************************)
(* Result-collecting listeners (the templates' ResultCollector blocks)     *)
(***************************************************************************)
Elem(name, value, closeName) == <<O(name), T(value), C(closeName)>>

SaveConfigChildren(detail, closeName) ==
    Elem("time", "true", "time") \o Elem("latency", "true", "latency")
    \o Elem("timestamp", "true", "timestamp") \o Elem("success", "true", "success")
    \o Elem("label", "true", "label") \o Elem("code", "true", "code")
    \o Elem("message", "true", "message") \o Elem("threadName", "true", "threadName")
    \o Elem("dataType", "true", "dataType") \o Elem("encoding", "false", "encoding")
    \o Elem("assertions", "true", "assertions")
    \o Elem("subresults", "true", "subresults")
    \o Elem("responseData", detail, "responseData")
    \o Elem("samplerData", detail, "samplerData") \o Elem("xml", "false", "xml")
    \o Elem("fieldNames", "true", "fieldNames")
    \o Elem("responseHeaders", detail, "responseHeaders")
    \o Elem("requestHeaders", detail, "requestHeaders")
    \o Elem("responseDataOnError", "false", "responseDataOnError")
    \o Elem("saveAssertionResultsFailureMessage", "true", closeName)
    \o Elem("assertionsResultsToSave", "0", "assertionsResultsToSave")
    \o Elem("bytes", "true", "bytes") \o Elem("sentBytes", "true", "sentBytes")
    \o Elem("url", "true", "url") \o Elem("threadCounts", "true", "threadCounts")
    \o Elem("idleTime", "true", "idleTime") \o Elem("connectTime", "true", "connectTime")

ResultCollector(guiclass, detail, closeName) ==
    <<OA("ResultCollector", guiclass)>>
    \o Prop("boolProp", "ResultCollector.error_logging", <<T("false")>>)
    \o <<O("objProp"), O("name"), T("saveConfig"), C("name"),
         OA("value", "SampleSaveConfiguration")>>
    \o SaveConfigChildren(detail, closeName)
    \o <<C("value"), C("objProp")>>
    \o Prop("stringProp", "filename", <<>>)
    \o <<C("ResultCollector")>>

Num(n) == <<T(ToString(n))>>

(***************************************************************************)
(* har-to-jmeter/index.ts: generateJMeterXML                               *)
(***************************************************************************)
\* entry.request.url as a string, and the URL parser's view of it
UrlString(e) == <<"https://", e.host>> \o e.path

\* url.includes(group.pattern) || new RegExp(group.pattern).test(url)
\* a group without a pattern: url.includes(undefined) looks for the text
\* 'undefined' and new RegExp(undefined) matches every string
MissingPattern == <<"undefined">>

\* a pattern new RegExp rejects with a SyntaxError
InvalidPattern == <<"(">>

PatternMatches(url, pattern) ==
    \/ Includes(url, pattern)
    \/ pattern = <<".", "*">>
    \/ pattern = MissingPattern

\* new RegExp(group.pattern) is reached and raises
PatternThrows(url, pattern) == pattern = InvalidPattern /\ ~Includes(url, pattern)

\* the grouping loop raises for entry e: reading a property of null, iterating
\* a requestGroups value that is not iterable, or compiling a pattern that is
\* reached before any group matched
HarGroupNameThrows(e, an) ==
    \/ an.shape \in {"null", "groups not iterable"}
    \/ \E i \in 1..Len(an.requestGroups) :
          /\ PatternThrows(UrlString(e), an.requestGroups[i].pattern)
          /\ \A j \in 1..(i - 1) :
                ~PatternMatches(UrlString(e), an.requestGroups[j].pattern)

HarGroupingThrows(es, an) == \E k \in 1..Len(es) : HarGroupNameThrows(es[k], an)

\* a grouping that never reads the analysis
HarGroupNameIgnoringAnalysis(e, an) == <<"Default">>

\* the first recommended group whose pattern matches, else 'Default'
HarGroupName(e, an) ==
    LET hits == {i \in 1..Len(an.requestGroups) :
                    PatternMatches(UrlString(e), an.requestGroups[i].pattern)}
    IN IF hits = {} THEN <<"Default">>
       ELSE an.requestGroups[CHOOSE i \in hits : \A j \in hits : i <= j].name

RECURSIVE HarRequestGroups(_, _, _, _)
HarRequestGroups(es, an, i, obj) ==
    IF i > Len(es) THEN obj
    ELSE HarRequestGroups(es, an, i + 1, ObjPush(obj, HarGroupName(es[i], an), i))

\* a body test that forgets the method
HarHasBodyAnyMethod(e) == e.body # <<>>

HarHasBody(e) == e.method \in {"POST", "PUT", "PATCH"} /\ e.body # <<>>

HarQueryParam(p) ==
    <<OB("elementProp")>> \o Txt(escapeXml(p.name)) \o <<OE("elementProp")>>
    \o Prop("boolProp", "HTTPArgument.always_encode", <<T("false")>>)
    \o Prop("stringProp", "Argument.value", Txt(escapeXml(p.value)))
    \o Prop("stringProp", "Argument.metadata", <<T("=")>>)
    \o Prop("boolProp", "HTTPArgument.use_equals", <<T("true")>>)
    \o Prop("stringProp", "Argument.name", Txt(escapeXml(p.name)))
    \o <<C("elementProp")>>

RawBodyArgument(propName, valueText) ==
    Prop("boolProp", "postBodyRaw", <<T("true")>>)
    \o <<OA("elementProp", propName), OA("collectionProp", "Arguments.arguments"),
         OA("elementProp", "")>>
    \o Prop("boolProp", "HTTPArgument.always_encode", <<T("false")>>)
    \o Prop("stringProp", "Argument.value", valueText)
    \o Prop("stringProp", "Argument.metadata", <<T("=")>>)
    \o <<C("elementProp"), C("collectionProp"), C("elementProp")>>

HarHeader(h) ==
    <<OA("elementProp", "")>>
    \o Prop("stringProp", "Header.name", Txt(escapeXml(h.name)))
    \o Prop("stringProp", "Header.value", Txt(escapeXml(h.value)))
    \o <<C("elementProp")>>

HarKeptHeader(h) == h.name \notin {<<"host">>, <<"content-length">>, <<"connection">>}

HarGenerateHTTPSampler(e, an) ==
    LET headers == SelectSeq(e.headers, HarKeptHeader)
    IN <<OB("HTTPSamplerProxy")>>
       \o Txt(escapeXml(<<e.method, " ">> \o e.path))
       \o <<OE("HTTPSamplerProxy")>>
       \o <<OA("elementProp", "HTTPsampler.Arguments"),
            OA("collectionProp", "Arguments.arguments")>>
       \o Flat([i \in 1..Len(e.query) |-> HarQueryParam(e.query[i])])
       \o <<C("collectionProp"), C("elementProp")>>
       \o Prop("stringProp", "HTTPSampler.domain", Txt(escapeXml(<<e.host>>)))
       \o Prop("stringProp", "HTTPSampler.port", <<T("443")>>)
       \o Prop("stringProp", "HTTPSampler.protocol", <<T("https")>>)
       \o Prop("stringProp", "HTTPSampler.contentEncoding", <<>>)
       \o Prop("stringProp", "HTTPSampler.path", Txt(escapeXml(e.path)))
       \o Prop("stringProp", "HTTPSampler.method", <<T(e.method)>>)
       \o Prop("boolProp", "HTTPSampler.follow_redirects", <<T("true")>>)
       \o Prop("boolProp", "HTTPSampler.auto_redirects", <<T("false")>>)
       \o Prop("boolProp", "HTTPSampler.use_keepalive", <<T("true")>>)
       \o Prop("boolProp", "HTTPSampler.DO_MULTIPART_POST", <<T("false")>>)
       \o Prop("stringProp", "HTTPSampler.embedded_url_re", <<>>)
       \o Prop("stringProp", "HTTPSampler.connect_timeout", <<>>)
       \o Prop("stringProp", "HTTPSampler.response_timeout", <<>>)
       \o (IF HarHasBody(e)
           THEN RawBodyArgument("postBodyRaw", Txt(escapeXml(e.body)))
           ELSE <<>>)
       \o <<C("HTTPSamplerProxy")>>
       \o (IF Len(headers) > 0
           THEN <<OA("HeaderManager", "HeaderPanel"),
                  OA("collectionProp", "HeaderManager.headers")>>
                \o Flat([i \in 1..Len(headers) |-> HarHeader(headers[i])])
                \o <<C("collectionProp"), C("HeaderManager")>>
           ELSE <<>>)
       \o <<Comment("Response Code Assertions"),
            OA("ResponseAssertion", "AssertionGui"),
            OA("collectionProp", "Asserion.test_strings")>>
       \o Prop("stringProp", "49586", <<T("200")>>)
       \o Prop("stringProp", "49587", <<T("201")>>)
       \o Prop("stringProp", "49588", <<T("202")>>)
       \o <<C("collectionProp")>>
       \o Prop("stringProp", "Assertion.custom_message", <<>>)
       \o Prop("stringProp", "Assertion.test_field", <<T("Assertion.response_code")>>)
       \o Prop("boolProp", "Assertion.assume_success", <<T("false")>>)
       \o Prop("intProp", "Assertion.test_type", <<T("8")>>)
       \o <<C("ResponseAssertion"), Comment("Response Time Assertion"),
            OA("DurationAssertion", "DurationAssertionGui")>>
       \o Prop("stringProp", "DurationAssertion.duration", <<T("5000")>>)
       \o <<C("DurationAssertion"), Comment("JSON Extractor for correlation")>>
       \o (IF Len(an.correlationFields) > 0
           THEN <<OA("JSONPathExtractor", "JSONPathExtractorGui")>>
                \o Prop("stringProp", "JSONPATH", <<T("$..token")>>)
                \o Prop("stringProp", "VAR", <<T("authToken")>>)
                \o Prop("stringProp", "DEFAULT", <<T("NOT_FOUND")>>)
                \o Prop("stringProp", "VARIABLE", <<T("authToken")>>)
                \o Prop("stringProp", "SUBJECT", <<T("BODY")>>)
                \o <<C("JSONPathExtractor")>>
           ELSE <<>>)

CookieManagerNode ==
    <<OA("CookieManager", "CookiePanel"), EA("collectionProp", "CookieManager.cookies")>>
    \o Prop("boolProp", "CookieManager.clearEachIteration", <<T("false")>>)
    \o Prop("boolProp", "CookieManager.controlledByThreadGroup", <<T("false")>>)
    \o <<C("CookieManager")>>

CacheManagerNode ==
    <<OA("CacheManager", "CacheManagerGui")>>
    \o Prop("boolProp", "clearEachIteration", <<T("true")>>)
    \o Prop("boolProp", "useExpires", <<T("true")>>)
    \o Prop("boolProp", "CacheManager.controlledByThread", <<T("false")>>)
    \o <<C("CacheManager")>>

\* the <ThreadGroup> element's own properties, shared by the templates
ThreadGroupProps(loops, threads, ramp, scheduler, duration, delay) ==
    Prop("stringProp", "ThreadGroup.on_sample_error", <<T("continue")>>)
    \o <<OA("elementProp", "ThreadGroup.main_controller")>>
    \o Prop("boolProp", "LoopController.continue_forever", <<T("false")>>)
    \o Prop("stringProp", "LoopController.loops", loops)
    \o <<C("elementProp")>>
    \o Prop("stringProp", "ThreadGroup.num_threads", threads)
    \o Prop("stringProp", "ThreadGroup.ramp_time", ramp)
    \o Prop("boolProp", "ThreadGroup.scheduler", <<T(scheduler)>>)
    \o Prop("stringProp", "ThreadGroup.duration", duration)
    \o Prop("stringProp", "ThreadGroup.delay", delay)
    \o Prop("boolProp", "ThreadGroup.same_user_on_next_iteration", <<T("true")>>)

HarThreadGroup(g, es, lc, an) ==
    <<OB("ThreadGroup")>> \o Txt(escapeXml(g[1])) \o <<T(" Thread Group"), OE("ThreadGroup")>>
    \o ThreadGroupProps(Num(lc.loopCount), Num(lc.threadCount), Num(lc.rampUpTime),
                        "true", Num(lc.duration), <<>>)
    \o <<Comment("Cookie Manager")>> \o CookieManagerNode
    \o <<Comment("HTTP Cache Manager")>> \o CacheManagerNode
    \o Flat([i \in 1..Len(g[2]) |-> HarGenerateHTTPSampler(es[g[2][i]], an)])
    \o <<C("ThreadGroup")>>

\* the plan header: declaration, root, outer hashTree, TestPlan element
PlanHead(title, comment, variables, classpath) ==
    <<XmlDecl, NL, O("jmeterTestPlan"), NL, SP, O("hashTree"), NL, SP,
      OB("TestPlan")>> \o title \o <<OE("TestPlan")>>
    \o Prop("stringProp", "TestPlan.comments", <<T(comment)>>)
    \o Prop("boolProp", "TestPlan.functional_mode", <<T("false")>>)
    \o Prop("boolProp", "TestPlan.tearDown_on_shutdown", <<T("true")>>)
    \o Prop("boolProp", "TestPlan.serialize_threadgroups", <<T("false")>>)
    \o <<OA("elementProp", "TestPlan.arguments"),
         OA("collectionProp", "Arguments.arguments")>>
    \o variables
    \o <<C("collectionProp"), C("elementProp")>>
    \o classpath
    \o <<NL, SP, C("TestPlan"), NL, SP, O("hashTree"), NL, SP>>

PlanVariable(name, value) ==
    <<OA("elementProp", name)>>
    \o Prop("stringProp", "Argument.name", <<T(name)>>)
    \o Prop("stringProp", "Argument.value", value)
    \o Prop("stringProp", "Argument.metadata", <<T("=")>>)
    \o <<C("elementProp")>>

\* "\n    </hashTree>\n  </hashTree>\n</jmeterTestPlan>"
PlanTail == <<NL, SP, C("hashTree"), NL, SP, C("hashTree"), NL, C("jmeterTestPlan")>>

HarGroups(es, an) == ObjectEntries(HarRequestGroups(es, an, 1, <<>>))

HarGenerateJMeterXML(es, lc, an) ==
    LET gs == HarGroups(es, an)
    IN PlanHead(Txt(escapeXml(lc.testPlanName)), "Generated from HAR file",
                PlanVariable("BASE_URL",
                    IF Len(es) > 0 THEN <<T("https://"), T(es[1].host)>>
                    ELSE <<T("https://example.com")>>),
                Prop("stringProp", "TestPlan.user_define_classpath", <<>>))
       \o Flat([i \in 1..Len(gs) |-> HarThreadGroup(gs[i], es, lc, an)])
       \o <<Comment("Listeners")>>
       \o ResultCollector("ViewResultsFullVisualizer", "false",
                          "saveAssertionResultsFailureMessage")
       \o ResultCollector("SummaryReport", "false", "saveAssertionResultsMessage")
       \o PlanTail

(***************************************************************************)
(* generateSampleData (ai-jmeter-generator/index.ts)                       *)
(* A JSON value is [t, v]: t one of "undef", "str", "num", "bool" and v    *)
(* its text (a number's digits, true/false), or t "arr ..." for a          *)
(* one-element array of that element.  A schema is                         *)
(* [present, properties]: properties a sequence of [key, desc, type,       *)
(* example, itemExample]; desc tells whether the property's description is *)
(* an object, null, or a scalar; an absent properties field is the empty   *)
(* sequence with hasProperties FALSE.                                      *)
(***************************************************************************)
Undef == [t |-> "undef", v |-> <<>>]
JStr(s) == [t |-> "str", v |-> s]
JNum(n) == [t |-> "num", v |-> <<ToString(n)>>]
JBool(b) == [t |-> "bool", v |-> IF b THEN <<"true">> ELSE <<"false">>]

ArrayOf(t) ==
    CASE t = "str" -> "arr str" [] t = "num" -> "arr num" [] t = "bool" -> "arr bool"
      [] OTHER -> "arr undef"

ItemType(t) ==
    CASE t = "arr str" -> "str" [] t = "arr num" -> "num" [] t = "arr bool" -> "bool"
      [] OTHER -> "undef"

JArr(x) == [t |-> ArrayOf(x.t), v |-> x.v]

ItemOf(x) == [t |-> ItemType(x.t), v |-> x.v]

IsArray(x) == x.t \in {"arr str", "arr num", "arr bool", "arr undef"}

Falsy(x) ==
    \/ x.t = "undef"
    \/ x.t = "str" /\ x.v = <<>>
    \/ x.t = "num" /\ x.v = <<"0">>
    \/ x.t = "bool" /\ x.v = <<"false">>

\* a || b
OrElse(a, b) == IF Falsy(a) THEN b ELSE a

SampleValue(prop) ==
    CASE prop.type = "string" -> OrElse(prop.example, JStr(<<"sample_">> \o prop.key))
      [] prop.type \in {"integer", "number"} -> OrElse(prop.example, JNum(123))
      [] prop.type = "boolean" ->
            IF prop.example.t # "undef" THEN prop.example ELSE JBool(TRUE)
      [] prop.type = "array" -> JArr(OrElse(prop.itemExample, JStr(<<"sample_item">>)))
      [] OTHER -> OrElse(prop.example, JStr(<<"sample_">> \o prop.key))

\* JSON.stringify of a string: quoted, with " and \ escaped
JsonChar(c) == IF c = "\"" THEN <<"\\", "\"">> ELSE IF c = "\\" THEN <<"\\", "\\">> ELSE <<c>>

JsonQuote(s) == <<"\"">> \o Flat([i \in 1..Len(s) |-> JsonChar(s[i])]) \o <<"\"">>

JsonScalar(x) ==
    CASE x.t = "str" -> JsonQuote(x.v)
      [] x.t \in {"num", "bool"} -> x.v
      [] OTHER -> <<"null">>

JsonValue(x) ==
    IF IsArray(x) THEN <<"[", "\n", " ">> \o JsonScalar(ItemOf(x)) \o <<"\n", " ", "]">>
    ELSE JsonScalar(x)

\* the sampleData object: <<key, value>> in the order of schema.properties
SampleData(schema) ==
    [i \in 1..Len(schema.properties) |->
        <<schema.properties[i].key, SampleValue(schema.properties[i])>>]

JsonMember(m, last) ==
    <<"\n", " ">> \o JsonQuote(m[1]) \o <<":", " ">> \o JsonValue(m[2])
    \o (IF last THEN <<>> ELSE <<",">>)

\* JSON.stringify(sampleData, null, 2)
JsonStringify(obj) ==
    IF obj = <<>> THEN <<"{", "}">>
    ELSE <<"{">> \o Flat([i \in 1..Len(obj) |-> JsonMember(obj[i], i = Len(obj))])
         \o <<"\n", "}">>

generateSampleData(schema) ==
    IF ~schema.present \/ ~schema.hasProperties THEN <<"{", "}">>
    ELSE JsonStringify(SampleData(schema))

\* prop.type on a null description raises a TypeError
SampleDataThrows(schema) ==
    /\ schema.present /\ schema.hasProperties
    /\ \E i \in 1..Len(schema.properties) : schema.properties[i].desc = "null"

TypeError == <<"TypeError">>

(***************************************************************************)
(* Contracts: swaggerSpec.paths is a sequence of [path, ops] in key order, *)
(* ops a sequence of [method, tags, schema] in key order.                  *)
(***************************************************************************)
Upper(m) ==
    CASE m = "get" -> "GET" [] m = "post" -> "POST" [] m = "put" -> "PUT"
      [] m = "delete" -> "DELETE" [] m = "patch" -> "PATCH" [] m = "head" -> "HEAD"
      [] m = "options" -> "OPTIONS" [] OTHER -> m

\* every [path, method, operation] of the contract whose method is in allowed
RECURSIVE ContractOperations(_, _)
ContractOperations(paths, allowed) ==
    IF paths = <<>> THEN <<>>
    ELSE LET p == Head(paths)
             keep(o) == o.method \in allowed
             ops == SelectSeq(p.ops, keep)
         IN [i \in 1..Len(ops) |->
                [path |-> p.path, method |-> ops[i].method, operation |-> ops[i]]]
            \o ContractOperations(Tail(paths), allowed)

(***************************************************************************)
(* Swagger generateJMeterXML (part_001, lines 758-980)                     *)
(***************************************************************************)
SwaggerMethods == {"get", "post", "put", "delete", "patch", "head", "options"}

\* operation.tags?.[0] || 'Default'
FirstTagOrDefault(operation) ==
    IF Len(operation.tags) > 0 /\ operation.tags[1] # <<>>
    THEN operation.tags[1] ELSE <<"Default">>

\* keys[i] is the group key of operation i; operations are filed in order
RECURSIVE GroupByKey(_, _, _)
GroupByKey(keys, i, obj) ==
    IF i > Len(keys) THEN obj
    ELSE GroupByKey(keys, i + 1, ObjPush(obj, keys[i], i))

KeysOf(ops, Key(_)) == [i \in 1..Len(ops) |-> Key(ops[i])]

SwaggerTagKey(op) == FirstTagOrDefault(op.operation)

SwaggerEndpointGroups(spec) ==
    ObjectEntries(GroupByKey(KeysOf(ContractOperations(spec.paths, SwaggerMethods),
                                    SwaggerTagKey), 1, <<>>))

CodeProp(code) == Prop("stringProp", ToString(code), Num(code))

SwaggerStatusStrings(an) ==
    IF Len(an.statusCodes) > 0
    THEN Flat([i \in 1..Len(an.statusCodes) |-> CodeProp(an.statusCodes[i])])
    ELSE CodeProp(200) \o CodeProp(201)

SwaggerGenerateHTTPSampler(op, lc, an) ==
    <<OB("HTTPSamplerProxy")>>
    \o Txt(escapeXml(<<Upper(op.method), " ">> \o op.path))
    \o <<OE("HTTPSamplerProxy")>>
    \o <<OA("elementProp", "HTTPsampler.Arguments"),
         EA("collectionProp", "Arguments.arguments"), C("elementProp")>>
    \o Prop("stringProp", "HTTPSampler.domain", <<T("${HOST}")>>)
    \o Prop("stringProp", "HTTPSampler.port", <<T("${PORT}")>>)
    \o Prop("stringProp", "HTTPSampler.protocol", <<T("${PROTOCOL}")>>)
    \o Prop("stringProp", "HTTPSampler.contentEncoding", <<>>)
    \o Prop("stringProp", "HTTPSampler.path", Txt(escapeXml(op.path)))
    \o Prop("stringProp", "HTTPSampler.method", <<T(Upper(op.method))>>)
    \o Prop("boolProp", "HTTPSampler.follow_redirects", <<T("true")>>)
    \o Prop("boolProp", "HTTPSampler.auto_redirects", <<T("false")>>)
    \o Prop("boolProp", "HTTPSampler.use_keepalive", <<T("true")>>)
    \o Prop("boolProp", "HTTPSampler.DO_MULTIPART_POST", <<T("false")>>)
    \o (IF Upper(op.method) \in {"POST", "PUT", "PATCH"}
        THEN RawBodyArgument("HTTPsampler.Arguments",
                Txt(<<"{", "\"", "sample", "\"", ":", " ", "\"", "data", "\"", "}">>))
        ELSE <<>>)
    \o <<C("HTTPSamplerProxy"), O("hashTree")>>
    \o (IF lc.addAssertions
        THEN <<OA("ResponseAssertion", "AssertionGui"),
               OA("collectionProp", "Asserion.test_strings")>>
             \o SwaggerStatusStrings(an)
             \o <<C("collectionProp")>>
             \o Prop("stringProp", "Assertion.test_field", <<T("Assertion.response_code")>>)
             \o Prop("boolProp", "Assertion.assume_success", <<T("false")>>)
             \o Prop("intProp", "Assertion.test_type", <<T("33")>>)
             \o <<C("ResponseAssertion"), E("hashTree"),
                  OA("DurationAssertion", "DurationAssertionGui")>>
             \o Prop("stringProp", "DurationAssertion.duration",
                     Num(IF an.threshold # 0 THEN an.threshold ELSE 5000))
             \o <<C("DurationAssertion"), E("hashTree")>>
        ELSE <<>>)
    \o (IF lc.addCorrelation /\ Len(an.correlations) > 0
        THEN <<OA("JSONPostProcessor", "JSONPostProcessorGui")>>
             \o Prop("stringProp", "JSONPostProcessor.referenceNames",
                     Txt(an.correlations[1]))
             \o Prop("stringProp", "JSONPostProcessor.jsonPathExprs",
                     <<T("$..")>> \o Txt(an.correlations[1]))
             \o Prop("stringProp", "JSONPostProcessor.match_numbers", <<T("1")>>)
             \o Prop("stringProp", "JSONPostProcessor.defaultValues", <<T("default_value")>>)
             \o <<C("JSONPostProcessor"), E("hashTree")>>
        ELSE <<>>)
    \o <<C("hashTree")>>

CsvDataSetNode(variableNames) ==
    <<OA("CSVDataSet", "TestBeanGUI")>>
    \o Prop("stringProp", "delimiter", <<T(",")>>)
    \o Prop("stringProp", "fileEncoding", <<T("UTF-8")>>)
    \o Prop("stringProp", "filename", <<T("test_data.csv")>>)
    \o Prop("boolProp", "ignoreFirstLine", <<T("true")>>)
    \o Prop("boolProp", "quotedData", <<T("false")>>)
    \o Prop("boolProp", "recycle", <<T("true")>>)
    \o Prop("stringProp", "shareMode", <<T("shareMode.all")>>)
    \o Prop("boolProp", "stopThread", <<T("false")>>)
    \o Prop("stringProp", "variableNames", <<T(variableNames)>>)
    \o <<C("CSVDataSet"), E("hashTree")>>

SwaggerThreadGroup(g, ops, lc, an) ==
    <<OB("ThreadGroup")>> \o Txt(escapeXml(g[1])) \o <<T(" Tests"), OE("ThreadGroup")>>
    \o ThreadGroupProps(Num(lc.loopCount), Num(lc.threadCount), Num(lc.rampUpTime),
                        "true", Num(lc.duration), <<>>)
    \o <<C("ThreadGroup"), NL, SP, O("hashTree")>>
    \o (IF lc.addCsvConfig THEN CsvDataSetNode("test_variable") ELSE <<>>)
    \o <<OA("HeaderManager", "HeaderPanel"), OA("collectionProp", "HeaderManager.headers"),
         OA("elementProp", "")>>
    \o Prop("stringProp", "Header.name", <<T("Content-Type")>>)
    \o Prop("stringProp", "Header.value", <<T("application/json")>>)
    \o <<C("elementProp"), OA("elementProp", "")>>
    \o Prop("stringProp", "Header.name", <<T("Accept")>>)
    \o Prop("stringProp", "Header.value", <<T("application/json")>>)
    \o <<C("elementProp"), C("collectionProp"), C("HeaderManager"), E("hashTree")>>
    \o Flat([i \in 1..Len(g[2]) |-> SwaggerGenerateHTTPSampler(ops[g[2][i]], lc, an)])
    \o <<C("hashTree")>>

\* a URL string is [valid, protocol, host, port]: what new URL(url) reads from
\* it, port "" when the string names none; valid FALSE when new URL throws
\* a URL string: scheme, "://", host, then ":" and a port, then a path
Url(scheme, host, port, path) ==
    <<scheme, "://", host>>
    \o (IF port = "" THEN <<>> ELSE <<":", port>>)
    \o (IF path = "" THEN <<>> ELSE <<path>>)

DefaultBaseUrl == Url("https", "api.example.com", "", "")

\* no URL given: undefined or the empty string
NoUrl == <<>>

\* loadConfig.baseUrl || swaggerSpec.servers?.[0]?.url || 'https://api.example.com'
BaseUrlOf(spec, lc) ==
    IF lc.baseUrl # NoUrl THEN lc.baseUrl
    ELSE IF spec.serverUrl # NoUrl THEN spec.serverUrl ELSE DefaultBaseUrl

\* new URL(url) throws for a string without a scheme
UrlParses(url) == Len(url) >= 3 /\ url[2] = "://"

\* URL.port: the empty string when the string names no port or names the
\* default port of its scheme
UrlPort(url) ==
    IF Len(url) >= 5 /\ url[4] = ":"
       /\ ~(url[1] = "https" /\ url[5] = "443") /\ ~(url[1] = "http" /\ url[5] = "80")
    THEN url[5] ELSE ""

\* a parser that drops the port of the URL
parseBaseUrlDefaultPort(url) ==
    IF UrlParses(url)
    THEN [protocol |-> url[1], host |-> url[3],
          port |-> IF url[1] = "https" THEN "443" ELSE "80"]
    ELSE [protocol |-> "https", host |-> "api.example.com", port |-> "443"]

parseBaseUrl(url) ==
    IF UrlParses(url)
    THEN [protocol |-> url[1], host |-> url[3],
          port |-> IF UrlPort(url) # "" THEN UrlPort(url)
                   ELSE IF url[1] = "https" THEN "443" ELSE "80"]
    ELSE [protocol |-> "https", host |-> "api.example.com", port |-> "443"]

PlanUrlVariables(urlParts) ==
    PlanVariable("PROTOCOL", <<T(urlParts.protocol)>>)
    \o PlanVariable("HOST", <<T(urlParts.host)>>)
    \o PlanVariable("PORT", <<T(urlParts.port)>>)

SwaggerGenerateJMeterXML(spec, lc, an) ==
    LET ops == ContractOperations(spec.paths, SwaggerMethods)
        gs == SwaggerEndpointGroups(spec)
    IN PlanHead(Txt(escapeXml(lc.testPlanName)), "AI-Generated JMeter Test Plan",
                PlanUrlVariables(parseBaseUrl(BaseUrlOf(spec, lc))),
                Prop("stringProp", "TestPlan.user_define_classpath", <<>>))
       \o Flat([i \in 1..Len(gs) |-> SwaggerThreadGroup(gs[i], ops, lc, an)])
       \o <<Comment("Listeners")>>
       \o ResultCollector("ViewResultsFullVisualizer", "false",
                          "saveAssertionResultsFailureMessage")
       \o <<E("hashTree")>>
       \o PlanTail

(***************************************************************************)
(* ai-jmeter-generator/index.ts: generateEnhancedJMeterXml                 *)
(***************************************************************************)
EnhancedMethods == {"get", "post", "put", "delete", "patch"}

HasPath(spec, path) == \E i \in 1..Len(spec.paths) : spec.paths[i].path = path

\* Object.keys(swaggerSpec.paths || {})
PathKeys(spec) == [i \in 1..Len(spec.paths) |-> spec.paths[i].path]

\* the endpoint list a thread group is rendered from
EnhancedGroupList(spec, an) ==
    IF Len(an.recommendedThreadGroups) = 0
    THEN <<[name |-> <<"Default Tests">>, endpoints |-> PathKeys(spec),
            hasEndpoints |-> TRUE, recommendedThreads |-> 0, rampUpTime |-> 0]>>
    ELSE an.recommendedThreadGroups

\* a template that maps over the recommended groups without testing them
EnhancedThrowsUnguarded(spec, an) == Len(an.recommendedThreadGroups) = 0

\* reading a field of a null analysis, endpoints.map(...) on a missing list,
\* or Object.keys(undefined) for a path that is no key of swaggerSpec.paths,
\* raises a TypeError
EnhancedThrows(spec, an) ==
    \/ an.shape = "null"
    \/ \E i \in 1..Len(EnhancedGroupList(spec, an)) :
        LET g == EnhancedGroupList(spec, an)[i]
        IN \/ ~g.hasEndpoints
           \/ \E j \in 1..Len(g.endpoints) : ~HasPath(spec, g.endpoints[j])
           \/ \E j \in 1..Len(g.endpoints), k \in 1..Len(spec.paths) :
                 /\ spec.paths[k].path = g.endpoints[j]
                 /\ \E o \in 1..Len(spec.paths[k].ops) :
                       /\ spec.paths[k].ops[o].method \in EnhancedMethods
                       /\ SampleDataThrows(spec.paths[k].ops[o].schema)

\* indices, in ContractOperations(spec.paths, EnhancedMethods), of the
\* operations emitted for the endpoint list eps, in emission order
RECURSIVE EnhancedMembers(_, _)
EnhancedMembers(ops, eps) ==
    IF eps = <<>> THEN <<>>
    ELSE LET at(i) == ops[i].path = Head(eps)
         IN SelectSeq([i \in 1..Len(ops) |-> i], at) \o EnhancedMembers(ops, Tail(eps))

EnhancedGroups(spec, an) ==
    LET gl == EnhancedGroupList(spec, an)
        ops == ContractOperations(spec.paths, EnhancedMethods)
    IN [i \in 1..Len(gl) |-> <<gl[i].name, EnhancedMembers(ops, gl[i].endpoints)>>]

generateCsvConfig(param) ==
    <<OB("CSVDataSet")>> \o Txt(param.parameter) \o <<T(" CSV Config"), OE("CSVDataSet")>>
    \o Prop("stringProp", "delimiter", <<T(",")>>)
    \o Prop("stringProp", "fileEncoding", <<T("UTF-8")>>)
    \o Prop("stringProp", "filename", Txt(param.parameter) \o <<T("_data.csv")>>)
    \o Prop("boolProp", "ignoreFirstLine", <<T("true")>>)
    \o Prop("boolProp", "quotedData", <<T("false")>>)
    \o Prop("boolProp", "recycle", <<T("true")>>)
    \o Prop("stringProp", "shareMode", <<T("shareMode.all")>>)
    \o Prop("boolProp", "stopThread", <<T("false")>>)
    \o Prop("stringProp", "variableNames", Txt(param.parameter))
    \o <<C("CSVDataSet"), E("hashTree")>>

generateCsvConfigs(an) ==
    Flat([i \in 1..Len(an.parameterization) |-> generateCsvConfig(an.parameterization[i])])

generateCorrelationExtractor(field) ==
    <<OB("JSONPostProcessor"), T("Extract ")>> \o Txt(field.field)
    \o <<OE("JSONPostProcessor")>>
    \o Prop("stringProp", "JSONPostProcessor.referenceNames", Txt(field.field))
    \o Prop("stringProp", "JSONPostProcessor.jsonPathExprs", Txt(field.jsonPath))
    \o Prop("stringProp", "JSONPostProcessor.match_numbers", <<T("1")>>)
    \o Prop("stringProp", "JSONPostProcessor.defaultValues",
            <<T("default_")>> \o Txt(field.field))
    \o <<C("JSONPostProcessor"), E("hashTree")>>

generateCorrelationExtractors(an) ==
    Flat([i \in 1..Len(an.correlationFields) |->
            generateCorrelationExtractor(an.correlationFields[i])])

generatePerformanceAssertion(a) ==
    IF a.type = "response_time"
    THEN <<OA("DurationAssertion", "DurationAssertionGui")>>
         \o Prop("stringProp", "DurationAssertion.duration", Num(a.threshold))
         \o <<C("DurationAssertion"), E("hashTree")>>
    ELSE <<OA("ResponseAssertion", "AssertionGui"),
           OA("collectionProp", "Asserion.test_strings")>>
         \o Prop("stringProp", "49586", <<T("200")>>)
         \o Prop("stringProp", "49587", <<T("201")>>)
         \o Prop("stringProp", "49588", <<T("202")>>)
         \o Prop("stringProp", "49589", <<T("204")>>)
         \o <<C("collectionProp")>>
         \o Prop("stringProp", "Assertion.test_field", <<T("Assertion.response_code")>>)
         \o Prop("boolProp", "Assertion.assume_success", <<T("false")>>)
         \o Prop("intProp", "Assertion.test_type", <<T("33")>>)
         \o <<C("ResponseAssertion"), E("hashTree")>>

generatePerformanceAssertions(an) ==
    Flat([i \in 1..Len(an.performanceAssertions) |->
            generatePerformanceAssertion(an.performanceAssertions[i])])

\* requestBody.replace(/"/g, '&quot;')
QuoteOnly(c) == IF c = "\"" THEN <<"&", "quot;">> ELSE <<c>>

ReplaceQuotes(s) == Flat([i \in 1..Len(s) |-> QuoteOnly(s[i])])

\* operation.requestBody?.content?.['application/json']?.schema
\*   ? generateSampleData(schema) : ''
EnhancedRequestBody(operation) ==
    IF operation.schema.present THEN generateSampleData(operation.schema) ELSE <<>>

EnhancedHasBody(op) ==
    op.method \in {"post", "put", "patch"} /\ EnhancedRequestBody(op.operation) # <<>>

generateHttpSampler(op, an) ==
    <<OB("HTTPSamplerProxy"), T(Upper(op.method)), T(" ")>> \o Txt(op.path)
    \o <<OE("HTTPSamplerProxy")>>
    \o <<OA("elementProp", "HTTPsampler.Arguments"),
         EA("collectionProp", "Arguments.arguments"), C("elementProp")>>
    \o Prop("stringProp", "HTTPSampler.domain", <<T("${HOST}")>>)
    \o Prop("stringProp", "HTTPSampler.port", <<T("${PORT}")>>)
    \o Prop("stringProp", "HTTPSampler.protocol", <<T("${PROTOCOL}")>>)
    \o Prop("stringProp", "HTTPSampler.contentEncoding", <<>>)
    \o Prop("stringProp", "HTTPSampler.path", Txt(op.path))
    \o Prop("stringProp", "HTTPSampler.method", <<T(Upper(op.method))>>)
    \o Prop("boolProp", "HTTPSampler.follow_redirects", <<T("true")>>)
    \o Prop("boolProp", "HTTPSampler.auto_redirects", <<T("false")>>)
    \o Prop("boolProp", "HTTPSampler.use_keepalive", <<T("true")>>)
    \o Prop("boolProp", "HTTPSampler.DO_MULTIPART_POST", <<T("false")>>)
    \o (IF EnhancedHasBody(op)
        THEN RawBodyArgument("HTTPsampler.Arguments",
                             Txt(ReplaceQuotes(EnhancedRequestBody(op.operation))))
        ELSE <<>>)
    \o <<C("HTTPSamplerProxy"), O("hashTree")>>
    \o generatePerformanceAssertions(an)
    \o generateCorrelationExtractors(an)
    \o <<C("hashTree")>>

\* a || b || c on numbers
FirstNonZero(a, b, c) == IF a # 0 THEN a ELSE IF b # 0 THEN b ELSE c

EnhancedThreadGroup(g, members, ops, lc, an) ==
    <<OB("ThreadGroup")>> \o Txt(g.name) \o <<OE("ThreadGroup")>>
    \o ThreadGroupProps(Num(FirstNonZero(lc.loopCount, 1, 1)),
                        Num(FirstNonZero(g.recommendedThreads, lc.threadCount, 10)),
                        Num(FirstNonZero(g.rampUpTime, lc.rampUpTime, 60)),
                        "true", Num(FirstNonZero(lc.duration, 300, 300)), <<T("0")>>)
    \o <<C("ThreadGroup"), NL, SP, O("hashTree")>>
    \o generateCsvConfigs(an)
    \o Flat([i \in 1..Len(members) |-> generateHttpSampler(ops[members[i]], an)])
    \o <<C("hashTree")>>

generateThreadGroups(spec, lc, an) ==
    LET gl == EnhancedGroupList(spec, an)
        gs == EnhancedGroups(spec, an)
        ops == ContractOperations(spec.paths, EnhancedMethods)
    IN Flat([i \in 1..Len(gl) |-> EnhancedThreadGroup(gl[i], gs[i][2], ops, lc, an)])

generateEnhancedJMeterXml(spec, lc, an) ==
    PlanHead(IF lc.testPlanName # <<>> THEN Txt(lc.testPlanName)
             ELSE <<T("AI-Enhanced Performance Test")>>,
             "AI-Enhanced JMeter Test Plan",
             PlanUrlVariables(parseBaseUrl(BaseUrlOf(spec, lc))), <<>>)
    \o generateThreadGroups(spec, lc, an)
    \o <<Comment("Enhanced Listeners")>>
    \o ResultCollector("ViewResultsFullVisualizer", "false",
                       "saveAssertionResultsFailureMessage")
    \o <<E("hashTree")>>
    \o ResultCollector("SummaryReport", "false", "saveAssertionResultsFailureMessage")
    \o <<E("hashTree")>>
    \o PlanTail

(***************************************************************************)
(* EnhancedPerformanceTestGenerator.tsx: groupOperations                   *)
(***************************************************************************)
\* path.split('/')[1] || 'root'
RECURSIVE UpToSlash(_)
UpToSlash(s) == IF s = <<>> \/ Head(s) = "/" THEN <<>> ELSE <<Head(s)>> \o UpToSlash(Tail(s))

RECURSIVE AfterSlash(_)
AfterSlash(s) == IF s = <<>> THEN <<>>
                 ELSE IF Head(s) = "/" THEN Tail(s) ELSE AfterSlash(Tail(s))

FirstPathSegment(path) ==
    IF UpToSlash(AfterSlash(path)) = <<>> THEN <<"root">> ELSE UpToSlash(AfterSlash(path))

ClientTagKey(op) == FirstTagOrDefault(op.operation)

ClientSegmentKey(op) == FirstPathSegment(op.path)

groupOperations(spec, groupBy) ==
    IF groupBy = "tag"
    THEN GroupByKey(KeysOf(ContractOperations(spec.paths, EnhancedMethods), ClientTagKey),
                    1, <<>>)
    ELSE GroupByKey(KeysOf(ContractOperations(spec.paths, EnhancedMethods),
                           ClientSegmentKey), 1, <<>>)

(***************************************************************************)
(* The repair pass: enhanceHarJMeterXML (part_000) and enhanceJMeterXML    *)
(* (part_001)                                                              *)
(***************************************************************************)
\* String.prototype.replace(pattern, replacement) with a string pattern:
\* the first occurrence only
ReplaceFirst(d, pat, rep) ==
    IF ~Includes(d, pat) THEN d
    ELSE LET i == CHOOSE i \in 1..Len(d) :
                    IncludesAt(d, pat, i) /\ \A j \in 1..(i - 1) : ~IncludesAt(d, pat, j)
         IN SubSeq(d, 1, i - 1) \o rep \o SubSeq(d, i + Len(pat), Len(d))

\* '</hashTree>\n</jmeterTestPlan>'
ListenerAnchor == <<C("hashTree"), NL, C("jmeterTestPlan")>>

\* '\n    </hashTree>\n  </hashTree>\n</jmeterTestPlan>'
RepairTail == <<NL, SP, C("hashTree"), NL, SP, C("hashTree"), NL, C("jmeterTestPlan")>>

summaryReport ==
    <<NL, SP, Comment("Summary Report"), NL, SP>>
    \o ResultCollector("SummaryReport", "false", "saveAssertionResultsFailureMessage")
    \o <<NL, SP, E("hashTree")>>

viewResultsTree ==
    <<NL, SP, Comment("View Results Tree"), NL, SP>>
    \o ResultCollector("ViewResultsFullVisualizer", "true",
                       "saveAssertionResultsFailureMessage")
    \o <<NL, SP, E("hashTree")>>

AddListener(d, word, node) ==
    IF Mentions(d, word) THEN d ELSE ReplaceFirst(d, ListenerAnchor, node \o RepairTail)

\* the ends of the matches of /<ThreadGroup[^>]*>\s*<hashTree>/g: a <hashTree>
\* that follows the end of a <ThreadGroup ...> tag with only white space between
ThreadGroupOpenings(d) ==
    {i \in 1..Len(d) :
        /\ d[i] = O("hashTree")
        /\ \E j \in 1..(i - 1) :
              /\ d[j][2] = "ThreadGroup" /\ d[j][1] \in {"open", "oend", "empty"}
              /\ \A k \in (j + 1)..(i - 1) : d[k][1] = "ws"}

\* replace(regex, match => match + node)
InsertAfter(d, at, node) ==
    Flat([i \in 1..Len(d) |-> IF i \in at THEN <<d[i]>> \o node ELSE <<d[i]>>])

cookieManager == <<NL, SP>> \o CookieManagerNode \o <<NL, SP, E("hashTree")>>

cacheManager == <<NL, SP>> \o CacheManagerNode \o <<NL, SP, E("hashTree")>>

csvConfig ==
    <<NL, SP>> \o CsvDataSetNode("userId,userEmail,authToken,testData")

AddAfterThreadGroups(d, word, node) ==
    IF Mentions(d, word) THEN d ELSE InsertAfter(d, ThreadGroupOpenings(d), node)

\* enhancedXml.includes(text) for a text of the request: a run of character
\* data equal to it
IncludesText(d, text) ==
    \E i \in 1..Len(d) :
        \A k \in 1..Len(text) : i + k - 1 <= Len(d) /\ d[i + k - 1] = T(text[k])

\* the grave accent character (a TLA+ string cannot hold it)
Grave == "grave"

\* the replacement patterns String.prototype.replace expands in a
\* replacement string: $$, $&, $ followed by a grave accent (the text before
\* the match) and $' (the text after it)
RECURSIVE ExpandDollar(_, _, _, _)
ExpandDollar(s, before, matched, after) ==
    IF s = <<>> THEN <<>>
    ELSE IF Len(s) >= 2 /\ s[1] = "$" /\ s[2] \in {"$", "&", Grave, "'"}
    THEN (CASE s[2] = "$" -> <<T("$")>>
            [] s[2] = "&" -> matched
            [] s[2] = Grave -> before
            [] OTHER -> after)
         \o ExpandDollar(SubSeq(s, 3, Len(s)), before, matched, after)
    ELSE <<T(s[1])>> \o ExpandDollar(Tail(s), before, matched, after)

\* the sampler regex matches at i: <HTTPSamplerProxy ... testname="..METHOD.."
\* ...> and a later </HTTPSamplerProxy>
SamplerTagEnd(d, i) ==
    CHOOSE e \in (i + 1)..Len(d) : ~IsText(d, e) /\ \A k \in (i + 1)..(e - 1) : IsText(d, k)

IsSamplerStart(d, i, method) ==
    /\ d[i] = OB("HTTPSamplerProxy")
    /\ \E e \in (i + 1)..Len(d) :
          /\ d[e][1] = "oend"
          /\ \A k \in (i + 1)..(e - 1) : IsText(d, k)
          /\ \E k \in (i + 1)..(e - 1) : d[k] = T(method)
          /\ \E j \in (e + 1)..Len(d) : d[j] = C("HTTPSamplerProxy")

SamplerMatchEnd(d, i) ==
    CHOOSE j \in (SamplerTagEnd(d, i) + 1)..Len(d) :
        /\ d[j] = C("HTTPSamplerProxy")
        /\ \A k \in (SamplerTagEnd(d, i) + 1)..(j - 1) : d[k] # C("HTTPSamplerProxy")

\* match.replace('</HTTPSamplerProxy>', bodyXml + '\n      </HTTPSamplerProxy>')
InjectBody(match, bodyData) ==
    IF Mentions(match, "postBodyRaw") THEN match
    ELSE LET before == SubSeq(match, 1, Len(match) - 1)
             matched == <<C("HTTPSamplerProxy")>>
         IN before \o <<NL, SP>>
            \o RawBodyArgument("postBodyRaw",
                    ExpandDollar(escapeXml(bodyData), before, matched, <<>>))
            \o <<NL, SP, C("HTTPSamplerProxy")>>

\* enhancedXml.replace(samplerPattern, match => ...), from position from on
RECURSIVE ReplaceSamplers(_, _, _, _)
ReplaceSamplers(d, from, method, bodyData) ==
    LET starts == {i \in from..Len(d) : IsSamplerStart(d, i, method)}
    IN IF starts = {} THEN SubSeq(d, from, Len(d))
       ELSE LET i == CHOOSE i \in starts : \A j \in starts : i <= j
                e == SamplerMatchEnd(d, i)
            IN SubSeq(d, from, i - 1) \o InjectBody(SubSeq(d, i, e), bodyData)
               \o ReplaceSamplers(d, e + 1, method, bodyData)

\* entries.forEach(...), lines 421-464
RECURSIVE InjectBodies(_, _, _)
InjectBodies(d, es, i) ==
    IF i > Len(es) THEN d
    ELSE LET e == es[i]
             bodyData == e.body
         IN IF /\ e.method \in {"POST", "PUT", "PATCH"} /\ bodyData # <<>>
               /\ ~IncludesText(d, SubSeq(bodyData, 1, Min(50, Len(bodyData))))
            THEN InjectBodies(ReplaceSamplers(d, 1, e.method, bodyData), es, i + 1)
            ELSE InjectBodies(d, es, i + 1)

AddListeners(d) ==
    AddListener(AddListener(d, "SummaryReport", summaryReport),
                "ViewResultsFullVisualizer", viewResultsTree)

enhanceHarJMeterXML(aiGeneratedXml, lc, es) ==
    InjectBodies(
        AddAfterThreadGroups(
            AddAfterThreadGroups(AddListeners(aiGeneratedXml), "CookieManager",
                                 cookieManager),
            "CacheManager", cacheManager),
        es, 1)

enhanceJMeterXML(aiGeneratedXml, lc) ==
    IF lc.addCsvConfig
    THEN AddAfterThreadGroups(AddListeners(aiGeneratedXml), "CSVDataSet", csvConfig)
    ELSE AddListeners(aiGeneratedXml)

(***************************************************************************)
(* Inputs                                                                  *)
(***************************************************************************)
MaxEntries == 2
MaxPaths == 2
MaxProps == 2

SeqsUpTo(S, n) == UNION {[1..k -> S] : k \in 0..n}

Special == <<"<", ">", "&", "'", "\"">>

NoAnalysis ==
    [shape |-> "object", requestGroups |-> <<>>, correlationFields |-> <<>>,
     statusCodes |-> <<>>, threshold |-> 0, correlations |-> <<>>,
     recommendedThreadGroups |-> <<>>, parameterization |-> <<>>,
     performanceAssertions |-> <<>>]

NoLoadConfig ==
    [testPlanName |-> <<>>, threadCount |-> 0, rampUpTime |-> 0, duration |-> 0,
     loopCount |-> 0, addAssertions |-> FALSE, addCorrelation |-> FALSE,
     addCsvConfig |-> FALSE, baseUrl |-> NoUrl]

NoSpec == [paths |-> <<>>, serverUrl |-> NoUrl]

NoResp == [status |-> 0, body |-> "none"]

NoSample == <<"none">>

HarPaths == {<<"/", "a">>, <<"/", "b", "&", "'">>}

HarEntries ==
    {[method |-> m, host |-> "h", path |-> p, body |-> b,
      query |-> IF p = <<"/", "a">> THEN <<>>
                ELSE <<[name |-> <<"q", "<">>, value |-> <<"\"", "v">>]>>,
      headers |-> IF p = <<"/", "a">> THEN <<[name |-> <<"host">>, value |-> <<"h">>]>>
                  ELSE <<[name |-> <<"x", "&">>, value |-> <<">">>]>>] :
        m \in {"GET", "POST"}, p \in HarPaths, b \in {<<>>, Special}}

\* the fixed fallback analysis of har-to-jmeter/index.ts, lines 166-172
HarFallbackAnalysis ==
    [NoAnalysis EXCEPT
        !.requestGroups = <<[name |-> <<"All Requests">>, pattern |-> <<".", "*">>]>>,
        !.correlationFields = <<<<"JSESSIONID">>, <<"token">>, <<"csrf">>>>]

\* an analysis with the fields named in absent left out
Without(an, absent) ==
    [f \in DOMAIN an |-> IF f \in absent THEN NoAnalysis[f] ELSE an[f]]

\* the fallback analysis with any of the fields the serializer reads left out
HarPartialAnalyses ==
    {Without(HarFallbackAnalysis, absent) :
        absent \in SUBSET {"requestGroups", "correlationFields"}}

HarAnalyses ==
    HarPartialAnalyses \cup
    {NoAnalysis, HarFallbackAnalysis,
     [NoAnalysis EXCEPT
        !.requestGroups = <<[name |-> <<"b">>, pattern |-> <<"/", "b">>],
                            [name |-> <<"2">>, pattern |-> <<"/", "a">>]>>],
     [NoAnalysis EXCEPT
        !.requestGroups = <<[name |-> <<"1", "0">>, pattern |-> <<"/", "b">>],
                            [name |-> <<"2">>, pattern |-> <<"/">>]>>,
        !.correlationFields = <<<<"token">>>>],
     [NoAnalysis EXCEPT
        !.requestGroups = <<[name |-> <<"g", "<", "&">>, pattern |-> <<"/", "a">>]>>]}

\* values JSON.parse can return that are not the expected object: null, a
\* number or string, and objects whose requestGroups is a number, holds a
\* group whose pattern is not a regular expression, or a group without one
HarOddAnalyses ==
    {[NoAnalysis EXCEPT !.shape = "null"], [NoAnalysis EXCEPT !.shape = "scalar"],
     [NoAnalysis EXCEPT !.shape = "groups not iterable"],
     [NoAnalysis EXCEPT
        !.requestGroups = <<[name |-> <<"b">>, pattern |-> <<"/", "b">>],
                            [name |-> <<"x">>, pattern |-> InvalidPattern]>>],
     [NoAnalysis EXCEPT
        !.requestGroups = <<[name |-> <<"m">>, pattern |-> MissingPattern]>>]}

Titles == {<<>>, <<"T">>, <<"a", "<", "&", "\"">>}

\* every title with a usual profile, and one title with a zero thread count
\* or a zero duration
HarLoadConfigs ==
    {lc \in {[NoLoadConfig EXCEPT !.testPlanName = t, !.threadCount = n,
                                  !.rampUpTime = 60, !.duration = d, !.loopCount = 1] :
                t \in Titles, n \in {0, 5}, d \in {0, 300}} :
        lc.testPlanName = <<"T">> \/ (lc.threadCount = 5 /\ lc.duration = 300)}

StringSchema(example) ==
    [present |-> TRUE, hasProperties |-> TRUE,
     properties |-> <<[key |-> <<"n">>, desc |-> "object", type |-> "string",
                       example |-> example, itemExample |-> Undef]>>]

NoSchema == [present |-> FALSE, hasProperties |-> FALSE, properties |-> <<>>]

EmptySchema == [present |-> TRUE, hasProperties |-> FALSE, properties |-> <<>>]

\* property descriptions: an object with any of the types and examples, null,
\* or a scalar (which has neither type nor example)
SchemaTypes == {"string", "integer", "number", "boolean", "array", "object", "none"}

ScalarExamples ==
    {Undef, JStr(<<>>), JStr(<<"A", "n", "n">>), JNum(0), JNum(7), JBool(FALSE),
     JBool(TRUE)}

PropertyDescriptions ==
    {[desc |-> "object", type |-> t, example |-> x, itemExample |-> Undef] :
        t \in SchemaTypes \ {"array"}, x \in ScalarExamples}
    \cup {[desc |-> "object", type |-> "array", example |-> x, itemExample |-> y] :
            x \in {Undef, JArr(JStr(<<"x">>))}, y \in {Undef, JStr(<<"i">>), JNum(0)}}
    \cup {[desc |-> d, type |-> "none", example |-> Undef, itemExample |-> Undef] :
            d \in {"null", "scalar"}}

Named(key, d) ==
    [key |-> key, desc |-> d.desc, type |-> d.type, example |-> d.example,
     itemExample |-> d.itemExample]

PropertyNames == <<<<"a", "g", "e">>, <<"n">>, <<"z">>>>

\* every schema: missing, without properties, or with up to MaxProps
\* properties named in order
Schemas ==
    {NoSchema, EmptySchema}
    \cup {[present |-> TRUE, hasProperties |-> TRUE,
            properties |-> [i \in 1..Len(ds) |-> Named(PropertyNames[i], ds[i])]] :
            ds \in SeqsUpTo(PropertyDescriptions, MaxProps)}

OpChoices ==
    {<<[method |-> "get", tags |-> <<<<"t">>>>, schema |-> NoSchema]>>,
     <<[method |-> "post", tags |-> <<<<"7">>>>, schema |-> StringSchema(JStr(<<"a", "<", "\"">>))]>>,
     <<[method |-> "get", tags |-> <<<<"t", "&">>>>, schema |-> NoSchema],
       [method |-> "post", tags |-> <<<<"7">>>>, schema |-> EmptySchema]>>,
     <<[method |-> "put", tags |-> <<>>, schema |-> NoSchema],
       [method |-> "head", tags |-> <<<<"t">>>>, schema |-> NoSchema]>>}

ContractPaths == {<<"/", "a">>, <<"/", "3", "/", "{id}", "<">>}

PathItems == {[path |-> p, ops |-> o] : p \in ContractPaths, o \in OpChoices}

DistinctPaths(ps) == \A i, j \in 1..Len(ps) : i # j => ps[i].path # ps[j].path

\* servers[0].url: absent, with a port and a path, and without a port
ServerUrls ==
    {NoUrl, Url("https", "api.example.com", "8443", "/v2"), Url("http", "h.test", "", "")}

\* loadConfig.baseUrl: the default port written out, and a host without a scheme
ConfiguredUrls == {Url("https", "h.test", "443", ""), <<"h.test">>}

\* contracts of up to MaxPaths paths; those of more than one path name no server
Specs ==
    {sp \in {[paths |-> ps, serverUrl |-> u] :
                ps \in {q \in SeqsUpTo(PathItems, MaxPaths) : DistinctPaths(q)},
                u \in ServerUrls} :
        sp.serverUrl = NoUrl \/ Len(sp.paths) <= 1}

\* the analysis literal the handler passes to generateJMeterXML
SwaggerFallbackAnalysis ==
    [NoAnalysis EXCEPT !.statusCodes = <<200, 201, 202, 204>>, !.threshold = 5000,
                       !.correlations = <<<<"token">>, <<"sessionId">>>>]

SwaggerLoadConfigs ==
    {[NoLoadConfig EXCEPT !.testPlanName = t, !.threadCount = 5, !.rampUpTime = 60,
                          !.duration = d, !.loopCount = 1, !.addAssertions = a,
                          !.addCorrelation = c, !.addCsvConfig = v] :
        t \in Titles, d \in {0, 300}, a \in BOOLEAN, c \in BOOLEAN, v \in BOOLEAN}
    \cup
    {[NoLoadConfig EXCEPT !.testPlanName = <<"T">>, !.threadCount = 5, !.rampUpTime = 60,
                          !.duration = 300, !.loopCount = 1, !.baseUrl = u] :
        u \in ConfiguredUrls}

Reverse(q) == [i \in 1..Len(q) |-> q[Len(q) + 1 - i]]

Group(name, endpoints, threads) ==
    [name |-> name, endpoints |-> endpoints, hasEndpoints |-> TRUE,
     recommendedThreads |-> threads, rampUpTime |-> 0]

\* generateFallbackAnalysis(swaggerSpec)
generateFallbackAnalysis(spec) ==
    [NoAnalysis EXCEPT
        !.recommendedThreadGroups =
            <<[name |-> <<"Default API Group">>, endpoints |-> PathKeys(spec),
               hasEndpoints |-> TRUE, recommendedThreads |-> 10, rampUpTime |-> 60]>>,
        !.parameterization = <<[parameter |-> <<"userId">>]>>,
        !.correlationFields = <<[field |-> <<"id">>, jsonPath |-> <<"$.id">>]>>,
        !.performanceAssertions = <<[type |-> "response_time", threshold |-> 2000]>>]

EnhancedPartialAnalyses(spec) ==
    {Without(generateFallbackAnalysis(spec), absent) :
        absent \in SUBSET {"recommendedThreadGroups", "parameterization",
                           "correlationFields", "performanceAssertions"}}

EnhancedAnalyses(spec) ==
    EnhancedPartialAnalyses(spec) \cup
    {NoAnalysis, generateFallbackAnalysis(spec),
     [NoAnalysis EXCEPT
        !.recommendedThreadGroups =
            <<Group(<<"A">>, <<<<"/", "a">>>>, 3), Group(<<"B">>, <<<<"/", "a">>>>, 0)>>],
     [NoAnalysis EXCEPT
        !.recommendedThreadGroups = <<Group(<<"g", "<">>, PathKeys(spec), 0)>>,
        !.parameterization = <<[parameter |-> <<"p", "&">>]>>,
        !.correlationFields = <<[field |-> <<"f", "'">>, jsonPath |-> <<"$", ">">>]>>,
        !.performanceAssertions = <<[type |-> "error_rate", threshold |-> 1]>>],
     [NoAnalysis EXCEPT
        !.recommendedThreadGroups = <<Group(<<"R">>, Reverse(PathKeys(spec)), 0)>>],
     [NoAnalysis EXCEPT
        !.recommendedThreadGroups = <<Group(<<"A">>, <<<<"/", "z">>>>, 0)>>],
     [NoAnalysis EXCEPT
        !.recommendedThreadGroups =
            <<[Group(<<"A">>, <<>>, 0) EXCEPT !.hasEndpoints = FALSE]>>]}

EnhancedLoadConfigs ==
    HarLoadConfigs
    \cup
    {[NoLoadConfig EXCEPT !.testPlanName = <<"T">>, !.threadCount = 5, !.rampUpTime = 60,
                          !.duration = 300, !.loopCount = 1, !.baseUrl = u] :
        u \in ConfiguredUrls}

(***************************************************************************)
(* Documents a provider may return (the model's stand-in for AI output):   *)
(* a plan with one thread group, some of the mandatory nodes and a tail    *)
(* whose line endings vary.                                                *)
(***************************************************************************)
AiListener(guiclass) ==
    <<OA("ResultCollector", guiclass), C("ResultCollector"), NL, E("hashTree"), NL>>

AiSampler(method, withBody) ==
    <<OB("HTTPSamplerProxy"), T(method), T(" "), T("/"), T("a"), OE("HTTPSamplerProxy")>>
    \o Prop("stringProp", "HTTPSampler.method", <<T(method)>>)
    \o (IF withBody THEN RawBodyArgument("postBodyRaw", <<T("a")>>) ELSE <<>>)
    \o <<C("HTTPSamplerProxy"), NL, E("hashTree"), NL>>

AiSamplerLists ==
    {<<>>, AiSampler("POST", FALSE), AiSampler("POST", TRUE), AiSampler("GET", FALSE),
     AiSampler("POST", FALSE) \o AiSampler("GET", FALSE),
     AiSampler("POST", TRUE) \o AiSampler("POST", FALSE)}

AiTails ==
    {<<C("hashTree"), NL, C("hashTree"), NL, C("jmeterTestPlan")>>,
     <<C("hashTree"), CRLF, C("hashTree"), CRLF, C("jmeterTestPlan")>>,
     <<C("hashTree"), C("hashTree"), C("jmeterTestPlan")>>}

\* nodes: the set of mandatory nodes the document already holds; bare: the
\* thread group is written as a tag directly followed by its <hashTree>
AiDoc(nodes, bare, samplers, tail) ==
    <<XmlDecl, NL, O("jmeterTestPlan"), NL, O("hashTree"), NL,
      OB("TestPlan"), T("AI"), OE("TestPlan"), C("TestPlan"), NL, O("hashTree"), NL>>
    \o (IF bare THEN <<EA("ThreadGroup", "ThreadGroupGui"), NL, O("hashTree"), NL>>
        ELSE <<OB("ThreadGroup"), T("Users"), OE("ThreadGroup")>>
             \o Prop("stringProp", "ThreadGroup.num_threads", <<T("1")>>)
             \o <<C("ThreadGroup"), NL, O("hashTree"), NL>>)
    \o (IF "cookie" \in nodes
        THEN <<OA("CookieManager", "CookiePanel"), C("CookieManager"), E("hashTree"), NL>>
        ELSE <<>>)
    \o (IF "cache" \in nodes
        THEN <<OA("CacheManager", "CacheManagerGui"), C("CacheManager"), E("hashTree"), NL>>
        ELSE <<>>)
    \o (IF "csv" \in nodes
        THEN <<OA("CSVDataSet", "TestBeanGUI"), C("CSVDataSet"), E("hashTree"), NL>>
        ELSE <<>>)
    \o samplers
    \o <<C("hashTree"), NL>>
    \o (IF "view" \in nodes THEN AiListener("ViewResultsFullVisualizer") ELSE <<>>)
    \o (IF "summary" \in nodes THEN AiListener("SummaryReport") ELSE <<>>)
    \o tail

\* one thread group of a returned plan with the managers named in nodes
AiThreadGroup(name, bare, nodes, samplers) ==
    (IF bare THEN <<EA("ThreadGroup", name), NL, O("hashTree"), NL>>
     ELSE <<OB("ThreadGroup"), T(name), OE("ThreadGroup")>>
          \o Prop("stringProp", "ThreadGroup.num_threads", <<T("1")>>)
          \o <<C("ThreadGroup"), NL, O("hashTree"), NL>>)
    \o (IF "cookie" \in nodes
        THEN <<OA("CookieManager", "CookiePanel"), C("CookieManager"), E("hashTree"), NL>>
        ELSE <<>>)
    \o (IF "cache" \in nodes
        THEN <<OA("CacheManager", "CacheManagerGui"), C("CacheManager"), E("hashTree"), NL>>
        ELSE <<>>)
    \o (IF "csv" \in nodes
        THEN <<OA("CSVDataSet", "TestBeanGUI"), C("CSVDataSet"), E("hashTree"), NL>>
        ELSE <<>>)
    \o samplers
    \o <<C("hashTree"), NL>>

\* a returned plan with two thread groups and both listeners
AiTwoGroupDoc(bare, first, second) ==
    <<XmlDecl, NL, O("jmeterTestPlan"), NL, O("hashTree"), NL,
      OB("TestPlan"), T("AI"), OE("TestPlan"), C("TestPlan"), NL, O("hashTree"), NL>>
    \o AiThreadGroup("Users", bare, first, AiSampler("GET", FALSE))
    \o AiThreadGroup("Admins", bare, second, AiSampler("GET", FALSE))
    \o AiListener("ViewResultsFullVisualizer") \o AiListener("SummaryReport")
    \o <<C("hashTree"), NL, C("hashTree"), NL, C("jmeterTestPlan")>>

HarTwoGroupDocs ==
    {AiTwoGroupDoc(bare, first, second) :
        bare \in BOOLEAN, first \in SUBSET {"cookie", "cache"},
        second \in SUBSET {"cookie", "cache"}}

SwaggerTwoGroupDocs ==
    {AiTwoGroupDoc(bare, first, second) :
        bare \in BOOLEAN, first \in SUBSET {"csv"}, second \in SUBSET {"csv"}}

HarAiDocs ==
    {AiDoc(nodes, bare, samplers, tail) :
        nodes \in SUBSET {"summary", "view", "cookie", "cache"}, bare \in BOOLEAN,
        samplers \in AiSamplerLists, tail \in AiTails}

SwaggerAiDocs ==
    {AiDoc(nodes, bare, samplers, tail) :
        nodes \in SUBSET {"summary", "view", "csv"}, bare \in BOOLEAN,
        samplers \in {<<>>, AiSampler("GET", FALSE)}, tail \in AiTails}

\* request bodies of capture entries: every string over BodyAlphabet of at
\* most MaxBody characters
BodyAlphabet == {"$", "&", Grave}
MaxBody == 4

Bodies == SeqsUpTo(BodyAlphabet, MaxBody)

RepairEntry(method, body) ==
    [method |-> method, host |-> "h", path |-> <<"/", "a">>, body |-> body,
     query |-> <<>>, headers |-> <<>>]

\* a sampler of a returned plan whose test name is the method and the path
AiSamplerAt(method, path, withBody) ==
    <<OB("HTTPSamplerProxy"), T(method), T(" ")>> \o Txt(path)
    \o <<OE("HTTPSamplerProxy")>>
    \o Prop("stringProp", "HTTPSampler.method", <<T(method)>>)
    \o (IF withBody THEN RawBodyArgument("postBodyRaw", <<T("a")>>) ELSE <<>>)
    \o <<C("HTTPSamplerProxy"), NL, E("hashTree"), NL>>

RepairEntryAt(method, path, body) ==
    [method |-> method, host |-> "h", path |-> path, body |-> body,
     query |-> <<>>, headers |-> <<>>]

\* a complete returned plan with one sampler per request of the capture
NamedSamplerDocs ==
    {AiDoc({"summary", "view", "cookie", "cache"}, FALSE, samplers,
           <<C("hashTree"), NL, C("hashTree"), NL, C("jmeterTestPlan")>>) :
        samplers \in {AiSamplerAt("POST", <<"/", "a">>, FALSE)
                         \o AiSamplerAt("POST", <<"/", "b">>, FALSE),
                      AiSamplerAt("POST", <<"/", "a">>, FALSE)
                         \o AiSamplerAt("PUT", <<"/", "b">>, FALSE),
                      AiSamplerAt("GET", <<"/", "a">>, FALSE)}}

\* captures of two requests with bodies of their own
NamedEntries ==
    {<<RepairEntryAt(m1, <<"/", "a">>, <<"x">>), RepairEntryAt(m2, <<"/", "b">>, <<"y">>)>> :
        m1 \in {"POST"}, m2 \in {"POST", "PUT"}}

\* text the handler's validation (includes('<jmeterTestPlan')) rejects
NotAPlan == <<T("S"), T("o"), T("r"), T("r"), T("y")>>

(***************************************************************************)
(* Request handlers                                                        *)
(***************************************************************************)
Providers == {"openai", "google"}

Configs == [aiProvider : Providers, openaiKey : BOOLEAN, googleKey : BOOLEAN]

HasKey(provider) == IF provider = "google" THEN config.googleKey ELSE config.openaiKey

\* a provider call ends in a rejected fetch, a non-ok status, or a reply
Outcomes == {"network", "http", "ok"}

Call(provider, outcome) == [provider |-> provider, outcome |-> outcome]

Ok200 == [status |-> 200, body |-> "document"]

Err500 == [status |-> 500, body |-> "error"]

\* the catch block of a handler: status 500 and an error body
Fail ==
    /\ resp' = Err500
    /\ pc' = "done"
    /\ UNCHANGED <<analysis, doc, groups>>

\* the client's state before a request: setHarResult(null), no toast shown
NoResult == "null"

NoToast == "none"

\* the fields of the JSON body of a har-to-jmeter answer
ResponseFields(ep, r) ==
    IF r.status # 200 THEN {"error", "stack"}
    ELSE IF ep = "har" THEN {"jmxContent", "analysis", "summary"}
    ELSE {"jmxContent", "metadata", "summary"}

\* the text of a provider answer, as far as the parsing reads it: no text
\* field at all, a JSON object, a JSON object inside prose, a {...} span that
\* is not JSON, text without braces that is not JSON, the text null, and a
\* JSON number or string
ReplyKinds == {"no text", "json", "span", "bad span", "no json", "null", "scalar"}

NoReply == [kind |-> "none", json |-> NoAnalysis]

Reply(kind, json) ==
    [kind |-> kind, json |-> IF kind \in {"json", "span"} THEN json ELSE NoAnalysis]

\* har-to-jmeter/index.ts, lines 143-162: JSON.parse raises on a span that
\* is not JSON and, for OpenAI only, on text without a span
HarParseThrows(provider, r) ==
    \/ r.kind = "bad span"
    \/ provider # "google" /\ r.kind = "no json"

\* lines 132-173: the parsed span, the fallback when parsing raised, and the
\* initial {} when no branch assigned
HarParse(provider, r) ==
    IF HarParseThrows(provider, r) THEN HarFallbackAnalysis
    ELSE IF r.kind \in {"json", "span"} THEN r.json
    ELSE IF r.kind \in {"null", "scalar"} /\ provider # "google"
    THEN [NoAnalysis EXCEPT !.shape = r.kind]
    ELSE NoAnalysis

\* har-to-jmeter/index.ts, lines 49-173: input parsing, the provider call
\* and the analysis
HarAnalyze ==
    /\ endpoint = "har" /\ pc = "start"
    /\ IF ~hasShape \/ ~HasKey(config.aiProvider)
       THEN Fail /\ UNCHANGED <<calls, insightReply>>
       ELSE \E outcome \in Outcomes :
              /\ calls' = Append(calls, Call(config.aiProvider, outcome))
              /\ CASE outcome = "network" -> Fail /\ UNCHANGED insightReply
                   [] outcome = "http" ->
                        /\ analysis' = HarFallbackAnalysis
                        /\ pc' = "serialize"
                        /\ UNCHANGED <<doc, groups, resp, insightReply>>
                   [] OTHER ->
                        \E kind \in ReplyKinds,
                           json \in HarAnalyses \cup
                                    {an \in HarOddAnalyses :
                                        an.shape \notin {"null", "scalar"}} :
                           /\ insightReply' = Reply(kind, json)
                           /\ analysis' = HarParse(config.aiProvider, Reply(kind, json))
                           /\ pc' = "serialize"
                           /\ UNCHANGED <<doc, groups, resp>>
    /\ UNCHANGED <<harResult, toast, hasShape, requestSchema, sample>>
    /\ UNCHANGED <<endpoint, entries, loadConfig, swaggerSpec, config>>

\* har-to-jmeter/index.ts, lines 175-191
HarSerialize ==
    /\ endpoint = "har" /\ pc = "serialize"
    /\ IF HarGroupingThrows(entries, analysis)
       THEN /\ resp' = Err500
            /\ UNCHANGED <<doc, groups>>
       ELSE /\ doc' = HarGenerateJMeterXML(entries, loadConfig, analysis)
            /\ groups' = HarGroups(entries, analysis)
            /\ resp' = Ok200
    /\ pc' = "done"
    /\ UNCHANGED <<harResult, toast, hasShape, insightReply, requestSchema, sample>>
    /\ UNCHANGED <<endpoint, entries, analysis, loadConfig, swaggerSpec, config, calls>>

\* jmxContent.includes('<jmeterTestPlan')
HasPlanRoot(d) ==
    \E i \in 1..Len(d) :
        d[i][2] = "jmeterTestPlan" /\ d[i][1] \in {"open", "obegin", "empty"}

\* the AI reply of part_000 once read: empty or no plan -> error, else repair
HarAiAccept(reply) ==
    IF HasPlanRoot(reply)
    THEN /\ doc' = reply
         /\ pc' = "repair"
         /\ UNCHANGED <<analysis, groups, resp>>
    ELSE Fail

\* part_000, lines 129-247: the primary provider call
HarAiGenerate ==
    /\ endpoint = "har-ai" /\ pc = "start"
    /\ IF ~hasShape \/ ~HasKey(config.aiProvider)
       THEN Fail /\ UNCHANGED calls
       ELSE \E outcome \in Outcomes :
              /\ calls' = Append(calls, Call(config.aiProvider, outcome))
              /\ CASE outcome = "network" -> Fail
                   [] outcome = "http" ->
                        IF config.aiProvider # "google" /\ config.googleKey
                        THEN /\ pc' = "retry"
                             /\ UNCHANGED <<analysis, doc, groups, resp>>
                        ELSE Fail
                   [] OTHER -> \E reply \in HarAiDocs \cup {<<>>, NotAPlan} :
                                  HarAiAccept(reply)
    /\ UNCHANGED <<harResult, toast, hasShape, insightReply, requestSchema, sample>>
    /\ UNCHANGED <<endpoint, entries, loadConfig, swaggerSpec, config>>

\* part_000, lines 181-198: the one retry, against Google
HarAiRetry ==
    /\ endpoint = "har-ai" /\ pc = "retry"
    /\ \E outcome \in Outcomes :
          /\ calls' = Append(calls, Call("google", outcome))
          /\ IF outcome = "ok"
             THEN \E reply \in HarAiDocs \cup {<<>>, NotAPlan} : HarAiAccept(reply)
             ELSE Fail
    /\ UNCHANGED <<harResult, toast, hasShape, insightReply, requestSchema, sample>>
    /\ UNCHANGED <<endpoint, entries, loadConfig, swaggerSpec, config>>

\* part_000, lines 249-269
HarRepair ==
    /\ endpoint = "har-ai" /\ pc = "repair"
    /\ doc' = enhanceHarJMeterXML(doc, loadConfig, entries)
    /\ resp' = Ok200
    /\ pc' = "repaired"
    /\ UNCHANGED <<harResult, toast, hasShape, insightReply, requestSchema, sample>>
    /\ UNCHANGED <<endpoint, entries, analysis, loadConfig, swaggerSpec, groups, config,
                   calls>>

\* part_001, lines 521-715: key check and the provider call
SwaggerGenerate ==
    /\ endpoint = "swagger" /\ pc = "start"
    /\ IF ~hasShape \/ ~HasKey(config.aiProvider)
       THEN Fail /\ UNCHANGED calls
       ELSE \E outcome \in Outcomes :
              /\ calls' = Append(calls, Call(config.aiProvider, outcome))
              /\ \E reply \in IF outcome = "ok" THEN SwaggerAiDocs \cup {<<>>, NotAPlan}
                              ELSE {<<>>} :
                    /\ doc' = reply
                    /\ pc' = IF HasPlanRoot(reply) THEN "repair"
                             ELSE "serialize"
              /\ UNCHANGED <<analysis, groups, resp>>
    /\ UNCHANGED <<harResult, toast, hasShape, insightReply, requestSchema, sample>>
    /\ UNCHANGED <<endpoint, entries, loadConfig, swaggerSpec, config>>

\* part_001, lines 718-721 and 735-743
SwaggerRepair ==
    /\ endpoint = "swagger" /\ pc = "repair"
    /\ doc' = enhanceJMeterXML(doc, loadConfig)
    /\ resp' = Ok200
    /\ pc' = "repaired"
    /\ UNCHANGED <<harResult, toast, hasShape, insightReply, requestSchema, sample>>
    /\ UNCHANGED <<endpoint, entries, analysis, loadConfig, swaggerSpec, groups, config,
                   calls>>

\* part_001, lines 722-743: the local generation
SwaggerSerialize ==
    /\ endpoint = "swagger" /\ pc = "serialize"
    /\ doc' = SwaggerGenerateJMeterXML(swaggerSpec, loadConfig, SwaggerFallbackAnalysis)
    /\ groups' = SwaggerEndpointGroups(swaggerSpec)
    /\ resp' = Ok200
    /\ pc' = "done"
    /\ UNCHANGED <<harResult, toast, hasShape, insightReply, requestSchema, sample>>
    /\ UNCHANGED <<endpoint, entries, analysis, loadConfig, swaggerSpec, config, calls>>

\* ai-jmeter-generator/index.ts, lines 150-158 and 188-196: JSON.parse of
\* the whole text (code fences removed), the fallback when it raises
EnhancedParse(spec, r) ==
    IF r.kind = "json" THEN r.json
    ELSE IF r.kind \in {"null", "scalar"} THEN [NoAnalysis EXCEPT !.shape = r.kind]
    ELSE generateFallbackAnalysis(spec)

\* ai-jmeter-generator/index.ts, lines 26 and 60-197: analyzeSwaggerWithAI
EnhancedAnalyze ==
    /\ endpoint = "enhanced" /\ pc = "start"
    /\ IF ~HasKey(config.aiProvider)
       THEN Fail /\ UNCHANGED <<calls, insightReply>>
       ELSE \E outcome \in Outcomes :
              /\ calls' = Append(calls, Call(config.aiProvider, outcome))
              /\ IF outcome = "ok"
                 THEN \E kind \in ReplyKinds, json \in EnhancedAnalyses(swaggerSpec) :
                        /\ insightReply' = Reply(kind, json)
                        /\ analysis' = EnhancedParse(swaggerSpec, Reply(kind, json))
                        /\ pc' = "serialize"
                        /\ UNCHANGED <<doc, groups, resp>>
                 ELSE Fail /\ UNCHANGED insightReply
    /\ UNCHANGED <<harResult, toast, hasShape, requestSchema, sample>>
    /\ UNCHANGED <<endpoint, entries, loadConfig, swaggerSpec, config>>

\* ai-jmeter-generator/index.ts, lines 29-56
EnhancedSerialize ==
    /\ endpoint = "enhanced" /\ pc = "serialize"
    /\ IF EnhancedThrows(swaggerSpec, analysis)
       THEN /\ resp' = Err500
            /\ UNCHANGED <<doc, groups>>
       ELSE /\ doc' = generateEnhancedJMeterXml(swaggerSpec, loadConfig, analysis)
            /\ groups' = EnhancedGroups(swaggerSpec, analysis)
            /\ resp' = Ok200
    /\ pc' = "done"
    /\ UNCHANGED <<harResult, toast, hasShape, insightReply, requestSchema, sample>>
    /\ UNCHANGED <<endpoint, entries, analysis, loadConfig, swaggerSpec, config, calls>>

\* EnhancedPerformanceTestGenerator.tsx, lines 1528-1576: the client reads
\* the answer of supabase.functions.invoke('har-to-jmeter'), which reports a
\* status outside 2xx as error
processHar ==
    /\ endpoint \in {"har", "har-ai"} /\ pc \in {"done", "repaired"}
    /\ LET error == resp.status # 200
           data == ResponseFields(endpoint, resp)
       IN IF ~error /\ "success" \in data
          THEN /\ harResult' = IF "data" \in data THEN "document" ELSE "undefined"
               /\ toast' = "HAR file processed successfully"
          ELSE /\ harResult' = NoResult
               /\ toast' = "Processing failed"
    /\ pc' = "shown"
    /\ UNCHANGED <<hasShape, insightReply, requestSchema, sample>>
    /\ UNCHANGED <<endpoint, entries, analysis, loadConfig, swaggerSpec, config, calls,
                   doc, groups, resp>>

\* EnhancedPerformanceTestGenerator.tsx, lines 313-316
ClientGroup ==
    /\ endpoint \in {"client-tag", "client-path"} /\ pc = "serialize"
    /\ groups' = ObjectEntries(groupOperations(swaggerSpec,
                    IF endpoint = "client-tag" THEN "tag" ELSE "path"))
    /\ pc' = "done"
    /\ UNCHANGED <<harResult, toast, hasShape, insightReply, requestSchema, sample>>
    /\ UNCHANGED <<endpoint, entries, analysis, loadConfig, swaggerSpec, config, calls,
                   doc, resp>>

\* the repair pass applied to its own output
RepairAgain ==
    /\ pc = "repaired"
    /\ doc' = IF endpoint = "har-ai" THEN enhanceHarJMeterXML(doc, loadConfig, entries)
              ELSE enhanceJMeterXML(doc, loadConfig)
    /\ pc' = "repaired twice"
    /\ UNCHANGED <<harResult, toast, hasShape, insightReply, requestSchema, sample>>
    /\ UNCHANGED <<endpoint, entries, analysis, loadConfig, swaggerSpec, groups, config,
                   calls, resp>>

\* generateSampleData called with the schema of a request body
\* (ai-jmeter-generator/index.ts, lines 325-327 and 522-547)
Synthesize ==
    /\ endpoint = "sample" /\ pc = "start"
    /\ sample' = IF SampleDataThrows(requestSchema) THEN TypeError
                 ELSE generateSampleData(requestSchema)
    /\ pc' = "done"
    /\ UNCHANGED <<harResult, toast, hasShape, insightReply, requestSchema>>
    /\ UNCHANGED <<endpoint, entries, analysis, loadConfig, swaggerSpec, doc, groups,
                   config, calls, resp>>

(***************************************************************************)
(* Specifications                                                          *)
(***************************************************************************)
\* whole requests, from the arrival of the request on
Init ==
    /\ pc = "start"
    /\ doc = <<>> /\ groups = <<>> /\ calls = <<>> /\ resp = NoResp
    /\ analysis = NoAnalysis /\ insightReply = NoReply
    /\ requestSchema = NoSchema /\ sample = NoSample
    /\ harResult = NoResult /\ toast = NoToast
    /\ config \in Configs
    /\ \/ /\ endpoint \in {"har", "har-ai"}
          /\ hasShape = TRUE
          /\ entries \in {<<>>, <<RepairEntry("POST", <<"$">>)>>}
          /\ loadConfig \in {lc \in HarLoadConfigs : lc.threadCount = 5 /\ lc.duration = 300}
          /\ swaggerSpec = NoSpec
       \/ /\ endpoint \in {"swagger", "enhanced"}
          /\ hasShape = TRUE
          /\ swaggerSpec \in {sp \in Specs : Len(sp.paths) = 1 /\ sp.serverUrl = NoUrl}
          /\ loadConfig \in {lc \in EnhancedLoadConfigs :
                                lc.threadCount = 5 /\ lc.duration = 300}
          /\ entries = <<>>
       \* a capture without log.entries, a contract without paths
       \/ /\ endpoint \in {"har", "har-ai", "swagger", "enhanced"}
          /\ hasShape = FALSE
          /\ entries = <<>> /\ swaggerSpec = NoSpec
          /\ loadConfig \in {lc \in EnhancedLoadConfigs :
                                lc.threadCount = 5 /\ lc.duration = 300}

Next ==
    \/ HarAnalyze \/ HarSerialize
    \/ HarAiGenerate \/ HarAiRetry \/ HarRepair
    \/ SwaggerGenerate \/ SwaggerRepair \/ SwaggerSerialize
    \/ EnhancedAnalyze \/ EnhancedSerialize
    \/ processHar

Spec == Init /\ [][Next]_vars

\* a request whose provider call was answered
Answered(provider) ==
    /\ config = [aiProvider |-> provider, openaiKey |-> TRUE, googleKey |-> TRUE]
    /\ calls = <<Call(provider, "ok")>>

\* the serializers, from the point where the handler calls them
InitSerialize ==
    /\ pc = "serialize"
    /\ doc = <<>> /\ groups = <<>> /\ resp = NoResp
    /\ hasShape = TRUE /\ requestSchema = NoSchema /\ sample = NoSample
    /\ harResult = NoResult /\ toast = NoToast
    /\ \/ /\ endpoint = "har" /\ Answered("openai")
          /\ entries \in SeqsUpTo(HarEntries, MaxEntries)
          /\ analysis \in HarAnalyses \cup HarOddAnalyses
          /\ loadConfig \in HarLoadConfigs
          /\ swaggerSpec = NoSpec
       \/ /\ endpoint = "swagger" /\ Answered("google")
          /\ swaggerSpec \in Specs
          /\ analysis = NoAnalysis
          /\ loadConfig \in SwaggerLoadConfigs
          /\ entries = <<>>
       \/ /\ endpoint = "enhanced" /\ Answered("google")
          /\ swaggerSpec \in Specs
          /\ analysis \in EnhancedAnalyses(swaggerSpec)
          /\ loadConfig \in EnhancedLoadConfigs
          /\ entries = <<>>
       \/ /\ endpoint \in {"client-tag", "client-path"}
          /\ config = [aiProvider |-> "google", openaiKey |-> FALSE, googleKey |-> FALSE]
          /\ calls = <<>>
          /\ swaggerSpec \in Specs
          /\ analysis = NoAnalysis /\ loadConfig = NoLoadConfig
          /\ entries = <<>>
    /\ insightReply = IF endpoint \notin {"har", "enhanced"} THEN NoReply
                      ELSE IF analysis.shape \in {"null", "scalar"}
                      THEN Reply(analysis.shape, NoAnalysis)
                      ELSE Reply("json", analysis)

NextSerialize == HarSerialize \/ SwaggerSerialize \/ EnhancedSerialize \/ ClientGroup

SpecSerialize == InitSerialize /\ [][NextSerialize]_vars

\* the sample-data synthesizer, over every schema
InitSample ==
    /\ endpoint = "sample" /\ pc = "start"
    /\ requestSchema \in Schemas /\ sample = NoSample
    /\ harResult = NoResult /\ toast = NoToast
    /\ doc = <<>> /\ groups = <<>> /\ calls = <<>> /\ resp = NoResp
    /\ analysis = NoAnalysis /\ insightReply = NoReply /\ hasShape = TRUE
    /\ entries = <<>> /\ swaggerSpec = NoSpec /\ loadConfig = NoLoadConfig
    /\ config = [aiProvider |-> "google", openaiKey |-> FALSE, googleKey |-> FALSE]

NextSample == Synthesize

SpecSample == InitSample /\ [][NextSample]_vars

\* the repair pass, from the point where the handler calls it
InitRepair ==
    /\ pc = "repair"
    /\ groups = <<>> /\ resp = NoResp /\ analysis = NoAnalysis
    /\ hasShape = TRUE /\ insightReply = NoReply /\ requestSchema = NoSchema /\ sample = NoSample
    /\ harResult = NoResult /\ toast = NoToast
    /\ \/ /\ endpoint = "har-ai" /\ Answered("openai")
          /\ doc \in HarAiDocs
          /\ entries \in {<<>>, <<RepairEntry("POST", <<"a">>)>>,
                          <<RepairEntry("GET", <<"a">>)>>,
                          <<RepairEntry("POST", <<"a">>), RepairEntry("POST", <<"&">>)>>}
          /\ loadConfig \in {lc \in HarLoadConfigs : lc.threadCount = 5 /\ lc.duration = 300}
          /\ swaggerSpec = NoSpec
       \/ /\ endpoint = "har-ai" /\ Answered("openai")
          /\ doc \in {AiDoc({"summary", "view", "cookie", "cache"}, FALSE, samplers, tail) :
                        samplers \in AiSamplerLists, tail \in AiTails}
          /\ entries \in {<<RepairEntry("POST", b)>> : b \in Bodies \ {<<>>}}
          /\ loadConfig \in {lc \in HarLoadConfigs :
                                lc.threadCount = 5 /\ lc.duration = 300
                                /\ lc.testPlanName = <<"T">>}
          /\ swaggerSpec = NoSpec
       \/ /\ endpoint = "har-ai" /\ Answered("openai")
          /\ doc \in HarTwoGroupDocs
          /\ entries = <<>>
          /\ loadConfig \in {lc \in HarLoadConfigs :
                                lc.threadCount = 5 /\ lc.duration = 300
                                /\ lc.testPlanName = <<"T">>}
          /\ swaggerSpec = NoSpec
       \/ /\ endpoint = "har-ai" /\ Answered("openai")
          /\ doc \in NamedSamplerDocs
          /\ entries \in NamedEntries
          /\ loadConfig \in {lc \in HarLoadConfigs :
                                lc.threadCount = 5 /\ lc.duration = 300
                                /\ lc.testPlanName = <<"T">>}
          /\ swaggerSpec = NoSpec
       \/ /\ endpoint = "swagger" /\ Answered("google")
          /\ doc \in SwaggerTwoGroupDocs
          /\ loadConfig \in {lc \in SwaggerLoadConfigs :
                                lc.duration = 300 /\ lc.testPlanName = <<"T">>
                                /\ ~lc.addAssertions /\ ~lc.addCorrelation}
          /\ swaggerSpec \in {sp \in Specs : Len(sp.paths) = 0 /\ sp.serverUrl = NoUrl}
          /\ entries = <<>>
       \/ /\ endpoint = "swagger" /\ Answered("google")
          /\ doc \in SwaggerAiDocs
          /\ loadConfig \in {lc \in SwaggerLoadConfigs :
                                lc.duration = 300 /\ lc.testPlanName = <<"T">>
                                /\ ~lc.addAssertions /\ ~lc.addCorrelation}
          /\ swaggerSpec \in {sp \in Specs : Len(sp.paths) = 0 /\ sp.serverUrl = NoUrl}
          /\ entries = <<>>

NextRepair == HarRepair \/ SwaggerRepair \/ RepairAgain

SpecRepair == InitRepair /\ [][NextRepair]_vars

(***************************************************************************)
(* Reading a produced document                                             *)
(***************************************************************************)
Count(d, tok) == Cardinality({i \in 1..Len(d) : d[i] = tok})

ListenerCount(d, guiclass) == Count(d, OA("ResultCollector", guiclass))

EntityTails == {"lt;", "gt;", "amp;", "apos;", "quot;"}

\* the & at i starts one of the five entities
StartsEntity(d, i) == IsText(d, i + 1) /\ d[i + 1][2] \in EntityTails

\* token i is one of the five characters, written as itself
RawSpecialAt(d, i) ==
    /\ IsText(d, i)
    /\ \/ d[i][2] \in {"<", ">", "'", "\""}
       \/ d[i][2] = "&" /\ ~StartsEntity(d, i)

\* token i lies in the attribute value an "obegin" token opened
InAttribute(d, i) ==
    \E j \in 1..(i - 1) : d[j][1] = "obegin" /\ \A k \in (j + 1)..(i - 1) : IsText(d, k)

\* character data an XML parser rejects: < or a bare & anywhere, " inside a
\* double-quoted attribute value
IllegalTextAt(d, i) ==
    /\ IsText(d, i)
    /\ \/ d[i][2] = "<"
       \/ d[i][2] = "&" /\ ~StartsEntity(d, i)
       \/ d[i][2] = "\"" /\ InAttribute(d, i)

\* what a stretch of the document leaves unmatched: the closing tags that
\* close nothing inside it, the elements it leaves open, and whether a
\* closing tag met an open element of another name
Unmatched(closes, opens, bad) == [closes |-> closes, opens |-> opens, bad |-> bad]

TokenTags(tok) ==
    IF tok[1] \in {"open", "obegin"} THEN Unmatched(<<>>, <<tok[2]>>, FALSE)
    ELSE IF tok[1] = "close" THEN Unmatched(<<tok[2]>>, <<>>, FALSE)
    ELSE Unmatched(<<>>, <<>>, FALSE)

JoinTags(a, b) ==
    LET k == Min(Len(a.opens), Len(b.closes))
    IN Unmatched(a.closes \o SubSeq(b.closes, k + 1, Len(b.closes)),
                 SubSeq(a.opens, 1, Len(a.opens) - k) \o b.opens,
                 \/ a.bad \/ b.bad
                 \/ \E j \in 1..k : a.opens[Len(a.opens) - j + 1] # b.closes[j])

RECURSIVE Tags(_, _, _)
Tags(d, lo, hi) ==
    IF lo > hi THEN Unmatched(<<>>, <<>>, FALSE)
    ELSE IF lo = hi THEN TokenTags(d[lo])
    ELSE JoinTags(Tags(d, lo, (lo + hi) \div 2), Tags(d, (lo + hi) \div 2 + 1, hi))

IsMarkup(tok) == tok[1] \in {"open", "obegin", "oend", "close", "empty", "text"}

\* one root element: the first markup token opens it, the last token closes
\* it, and everything between is balanced; no illegal character data
WellFormed(d) ==
    /\ \E r \in 1..Len(d) :
          /\ \A i \in 1..(r - 1) : ~IsMarkup(d[i])
          /\ d[r][1] = "open" /\ d[Len(d)] = C(d[r][2]) /\ r < Len(d)
          /\ Tags(d, r + 1, Len(d) - 1) = Unmatched(<<>>, <<>>, FALSE)
    /\ \A i \in 1..Len(d) : ~IllegalTextAt(d, i)

Produced == pc = "done" /\ resp = Ok200

\* the number of operations the grouping of this request ranges over
OperationCount ==
    CASE endpoint = "har" -> Len(entries)
      [] endpoint = "swagger" -> Len(ContractOperations(swaggerSpec.paths, SwaggerMethods))
      [] OTHER -> Len(ContractOperations(swaggerSpec.paths, EnhancedMethods))

\* how many times operation k is a member of an emitted thread group
Memberships(gs, k) ==
    Cardinality({ij \in (1..Len(gs)) \X (1..OperationCount) :
                    ij[2] <= Len(gs[ij[1]][2]) /\ gs[ij[1]][2][ij[2]] = k})

(***************************************************************************)
(* Properties of the serializers                                           *)
(***************************************************************************)
\* C1: the document each of the three serializers returns holds exactly one
\* ViewResultsFullVisualizer listener and exactly one SummaryReport listener.
C1_BothListenersOnce ==
    Produced /\ endpoint \in {"har", "swagger", "enhanced"}
    => /\ ListenerCount(doc, "ViewResultsFullVisualizer") = 1
       /\ ListenerCount(doc, "SummaryReport") = 1

\* C5: in a returned document none of the five characters < > & ' " stands
\* as itself in character data or in an attribute value: every embedded
\* text went through the five-character escaping.
C5_AllTextEscaped ==
    Produced => \A i \in 1..Len(doc) : ~RawSpecialAt(doc, i)

\* C6: for a load profile with a positive thread count and a non-empty
\* title, a returned document is well-formed XML (properly nested matching
\* tags, legal character data) and holds exactly one TestPlan node.
C6_WellFormedOneTestPlan ==
    Produced /\ loadConfig.threadCount > 0 /\ loadConfig.testPlanName # <<>>
    => WellFormed(doc) /\ Count(doc, OB("TestPlan")) = 1

\* C9: grouping is a partition: every operation of the input is a member of
\* exactly one emitted thread group, whichever strategy formed the groups.
C9_GroupingIsPartition ==
    pc = "done" /\ resp # Err500
    => \A k \in 1..OperationCount : Memberships(groups, k) = 1

\* C10: thread groups are emitted in the order in which their keys first
\* occur in the input: the first member of an earlier group precedes the
\* first member of every later group.
C10_FirstOccurrenceOrder ==
    pc = "done" /\ endpoint \in {"har", "swagger", "client-tag", "client-path"}
    => \A i, j \in 1..Len(groups) : i < j => groups[i][2][1] < groups[j][2][1]

(***************************************************************************)
(* Properties of the repair pass                                           *)
(***************************************************************************)
Repair == HarRepair \/ SwaggerRepair

\* C2: the repair pass is idempotent: applied to its own output it returns
\* that output unchanged.
C2_RepairIdempotent == [][RepairAgain => doc' = doc]_vars

\* the document lacks the summary listener and nothing else the pass adds
MissingOnlySummary ==
    /\ ~Mentions(doc, "SummaryReport")
    /\ Mentions(doc, "ViewResultsFullVisualizer")
    /\ endpoint = "har-ai" =>
          /\ Mentions(doc, "CookieManager") /\ Mentions(doc, "CacheManager")
          /\ \A i \in 1..Len(entries) :
                HarHasBody(entries[i]) => IncludesText(doc, entries[i].body)
    /\ endpoint = "swagger" /\ loadConfig.addCsvConfig => Mentions(doc, "CSVDataSet")

\* d2 is d with one stretch of tokens inserted, the stretch is balanced and
\* holds the one summary listener of d2, and the closing hashTree tags are
\* as many as before
OnlySummaryInserted(d, d2) ==
    /\ ListenerCount(d2, "SummaryReport") = 1
    /\ Count(d2, C("hashTree")) = Count(d, C("hashTree"))
    /\ \E lo \in 1..(Len(d) + 1) :
          LET hi == lo + Len(d2) - Len(d) - 1
          IN /\ hi >= lo
             /\ SubSeq(d2, 1, lo - 1) \o SubSeq(d2, hi + 1, Len(d2)) = d
             /\ Tags(d2, lo, hi) = Unmatched(<<>>, <<>>, FALSE)
             /\ \E i \in lo..hi : d2[i] = OA("ResultCollector", "SummaryReport")

\* C7: repairing a document that misses only the summary listener inserts
\* exactly one summary listener node and changes nothing else, the closing
\* hashTree tags included.
C7_OnlySummaryInserted ==
    [][Repair /\ MissingOnlySummary => OnlySummaryInserted(doc, doc')]_vars

\* C8: whatever the white space and line endings of a document with a
\* jmeterTestPlan root, the repaired document holds a summary listener and a
\* detailed-results listener.
C8_RepairedHasBothListeners ==
    pc = "repaired"
    => /\ ListenerCount(doc, "SummaryReport") >= 1
       /\ ListenerCount(doc, "ViewResultsFullVisualizer") >= 1

(***************************************************************************)
(* Properties of the provider calls                                        *)
(***************************************************************************)
Finished == pc \in {"done", "repaired"}

Failed(call) == call.outcome # "ok"

OtherProvider(provider) == IF provider = "google" THEN "openai" ELSE "google"

\* C3: when every provider call of a request failed, the request still ends
\* with a document, built from the fixed default insight.
C3_FallbackGuarantee ==
    Finished /\ calls # <<>> /\ (\A i \in 1..Len(calls) : Failed(calls[i]))
    => /\ resp = Ok200 /\ doc # <<>>
       /\ endpoint = "har" => analysis = HarFallbackAnalysis
       /\ endpoint = "enhanced" => analysis = generateFallbackAnalysis(swaggerSpec)

\* C4: a failed first call with a second provider configured is followed by
\* exactly one call, to the second provider; a successful first call is
\* followed by none; no request makes more than two calls.
C4_RetryOnceAgainstSecond ==
    Finished /\ calls # <<>>
    => /\ Len(calls) <= 2
       /\ ~Failed(calls[1]) => Len(calls) = 1
       /\ Failed(calls[1]) /\ HasKey(OtherProvider(calls[1].provider))
          => Len(calls) = 2 /\ calls[2].provider = OtherProvider(calls[1].provider)

(***************************************************************************)
(* Properties of the grouping and of the thread groups                     *)
(***************************************************************************)
\* the name of the first recommended group, from position i on, whose
\* pattern the URL matches; "Default" when none does
RECURSIVE FirstMatch(_, _, _)
FirstMatch(url, rgs, i) ==
    IF i > Len(rgs) THEN <<"Default">>
    ELSE IF PatternMatches(url, rgs[i].pattern) THEN rgs[i].name
    ELSE FirstMatch(url, rgs, i + 1)

EntryGroup(k) == FirstMatch(UrlString(entries[k]), analysis.requestGroups, 1)

\* C11: under by-ai-pattern grouping every operation is a member of the
\* group of the first recommended pattern its URL matches, operations that
\* match no pattern are members of the group "Default", and that group is
\* the last thread group of the output.
C11_FirstPatternDefaultLast ==
    Produced /\ endpoint = "har"
    => \A g \in 1..Len(groups) :
          /\ \A m \in 1..Len(groups[g][2]) : groups[g][1] = EntryGroup(groups[g][2][m])
          /\ groups[g][1] = <<"Default">> => g = Len(groups)

\* C12: within every emitted thread group the members stand in the order of
\* the input: an operation that comes earlier in the capture file, or in the
\* contract's key order, has its sampler earlier in the group.
C12_MembersInInputOrder ==
    pc = "done" /\ resp # Err500
    => \A g \in 1..Len(groups) : \A m, n \in 1..Len(groups[g][2]) :
          m < n => groups[g][2][m] < groups[g][2][n]

\* the number of operation groups of the input: the distinct group keys of
\* its operations, or the groups the AI recommended (one default group when
\* it recommended none)
ExpectedGroupCount ==
    CASE endpoint = "har" -> Cardinality({EntryGroup(k) : k \in 1..Len(entries)})
      [] endpoint = "swagger" ->
            LET ops == ContractOperations(swaggerSpec.paths, SwaggerMethods)
            IN Cardinality({FirstTagOrDefault(ops[k].operation) : k \in 1..Len(ops)})
      [] OTHER -> IF Len(analysis.recommendedThreadGroups) > 0
                  THEN Len(analysis.recommendedThreadGroups) ELSE 1

\* C13: a returned document holds as many ThreadGroup nodes as the input
\* has operation groups.
C13_ThreadGroupPerGroup ==
    Produced /\ endpoint \in {"har", "swagger", "enhanced"}
    => Count(doc, OB("ThreadGroup")) = ExpectedGroupCount

\* a returned document with more than one thread group
C13_Witness ==
    /\ Produced /\ endpoint \in {"har", "enhanced"}
    /\ Count(doc, OB("ThreadGroup")) = 2
    /\ ExpectedGroupCount = 2

(***************************************************************************)
(* Properties of the sample-data synthesizer                               *)
(***************************************************************************)
\* the rule table: a present example verbatim, else the default of the type
RuleValue(prop) ==
    IF prop.example.t # "undef" THEN prop.example
    ELSE CASE prop.type = "string" -> JStr(<<"sample_">> \o prop.key)
           [] prop.type \in {"integer", "number"} -> JNum(123)
           [] prop.type = "boolean" -> JBool(TRUE)
           [] prop.type = "array" ->
                 JArr(IF Falsy(prop.itemExample) THEN JStr(<<"sample_item">>)
                      ELSE prop.itemExample)
           [] OTHER -> JStr(<<"sample_">> \o prop.key)

RuleObject(s) ==
    [i \in 1..Len(s.properties) |-> <<s.properties[i].key, RuleValue(s.properties[i])>>]

AllDescribed(s) == \A i \in 1..Len(s.properties) : s.properties[i].desc = "object"

\* C14: for a schema whose properties are all described by objects, the
\* synthesizer's output is the JSON text of the rule table's object: the
\* schema's property names, each with its example if it has one (false, 0
\* and the empty string included) and the default of its type otherwise.
C14_SampleFollowsRuleTable ==
    endpoint = "sample" /\ pc = "done"
    /\ requestSchema.present /\ requestSchema.hasProperties /\ AllDescribed(requestSchema)
    => sample = JsonStringify(RuleObject(requestSchema))

\* C15: the synthesizer returns a value for every schema, and returns {}
\* for a missing schema and for a schema without properties.
C15_SampleNeverFails ==
    endpoint = "sample" /\ pc = "done"
    => /\ sample # TypeError
       /\ ~requestSchema.present \/ ~requestSchema.hasProperties => sample = <<"{", "}">>

(***************************************************************************)
(* Properties of the samplers                                              *)
(***************************************************************************)
\* the members of all emitted thread groups, in emission order
Members == Flat([g \in 1..Len(groups) |-> groups[g][2]])

\* positions of the sampler openings of a document, in order
SamplerPositions(d) ==
    LET opens(i) == d[i] = OB("HTTPSamplerProxy")
    IN SelectSeq([i \in 1..Len(d) |-> i], opens)

\* the sampler element opened at position p holds a raw-body argument
SamplerHasRawBody(d, p) ==
    \E i \in (p + 1)..Len(d) :
        /\ d[i] = OA("boolProp", "postBodyRaw")
        /\ \A j \in p..i : d[j] # C("HTTPSamplerProxy")

BodyMethods == {"POST", "PUT", "PATCH"}

\* operation k of the input has a body method and a non-empty body: the
\* captured text, the contract serializer's literal, or the synthesized
\* sample data
OperationHasBody(k) ==
    CASE endpoint = "har" ->
            entries[k].method \in BodyMethods /\ entries[k].body # <<>>
      [] endpoint = "swagger" ->
            Upper(ContractOperations(swaggerSpec.paths, SwaggerMethods)[k].method)
                \in BodyMethods
      [] OTHER ->
            LET op == ContractOperations(swaggerSpec.paths, EnhancedMethods)[k]
            IN /\ Upper(op.method) \in BodyMethods
               /\ op.operation.schema.present

PropertyText(d, i) == IF i < Len(d) /\ IsText(d, i + 1) THEN d[i + 1][2] ELSE ""

\* C17: in a returned document every thread group has its scheduler
\* property true exactly when the load profile's duration is greater than
\* 0, and with duration 0 its loop controller runs loopCount loops.
C17_SchedulerIffDuration ==
    Produced /\ endpoint \in {"har", "swagger", "enhanced"}
    => \A i \in 1..Len(doc) :
          /\ doc[i] = OA("boolProp", "ThreadGroup.scheduler")
             => (PropertyText(doc, i) = "true" <=> loadConfig.duration > 0)
          /\ doc[i] = OA("stringProp", "LoopController.loops") /\ loadConfig.duration = 0
             => PropertyText(doc, i) = ToString(loadConfig.loopCount)

\* the load profile and title the serializer is to reject
InvalidProfile == loadConfig.threadCount <= 0 \/ loadConfig.testPlanName = <<>>

\* C18: a serializer call ends in an error without a document exactly when
\* the thread count is not positive or the title is empty, and returns a
\* document otherwise.
C18_SerializationErrorIffInvalid ==
    pc = "done" /\ endpoint \in {"har", "swagger", "enhanced"}
    => /\ InvalidProfile => resp = Err500 /\ doc = <<>>
       /\ ~InvalidProfile => resp = Ok200 /\ doc # <<>>

(***************************************************************************)
(* Properties of input validation and of response parsing                  *)
(***************************************************************************)
\* C19: a request whose input lacks log.entries (a capture) or paths (a
\* contract) ends with a 4xx response, without a document and without a
\* provider call.
C19_MalformedInputRejected ==
    Finished /\ ~hasShape
    => /\ resp.status \in 400..499
       /\ doc = <<>>
       /\ calls = <<>>

AnalysisStep == HarAnalyze \/ EnhancedAnalyze

\* the insight the parsing policy yields for an answered call: the object of
\* the {...} span when the answer holds one, the fixed fallback otherwise
PolicyInsight(outcome, r) ==
    IF outcome = "ok" /\ r.kind \in {"json", "span"} THEN r.json
    ELSE IF endpoint = "har" THEN HarFallbackAnalysis
    ELSE generateFallbackAnalysis(swaggerSpec)

\* C20: after a provider call that was answered, with an HTTP error or
\* with any body, the analysis step ends with the insight of the parsing
\* policy: the parsed object of the answer, or the fixed fallback when the
\* answer holds none; it never ends in an error or with an empty insight.
C20_ParsingPolicy ==
    [][AnalysisStep /\ calls' # calls /\ calls'[Len(calls')].outcome # "network"
       => /\ pc' = "serialize"
          /\ analysis' = PolicyInsight(calls'[Len(calls')].outcome, insightReply')]_vars

(***************************************************************************)
(* Properties of the serializers' use of the analysis                      *)
(***************************************************************************)
\* the analysis is the empty one or the fallback with some fields left out
PartialAnalysis ==
    \/ endpoint = "har" /\ analysis \in HarPartialAnalyses
    \/ endpoint = "enhanced" /\ analysis \in EnhancedPartialAnalyses(swaggerSpec)

\* C21: a serializer called with the empty analysis, or with an analysis
\* that lacks any subset of its fields, returns a document.
C21_NoInsightFieldRequired ==
    pc = "done" /\ PartialAnalysis => resp = Ok200 /\ doc # <<>>

\* a document returned for the empty analysis, and one for an analysis with
\* only some of its fields
C21_Witness ==
    /\ Produced /\ endpoint = "enhanced" /\ PartialAnalysis /\ doc # <<>>
    /\ analysis.recommendedThreadGroups = <<>>
    /\ analysis.correlationFields # <<>>
    /\ Len(swaggerSpec.paths) > 0

(***************************************************************************)
(* Properties of the nodes the repair pass puts into thread groups         *)
(***************************************************************************)
\* the <hashTree> openings that hold the children of a thread group: the
\* one after the end of a ThreadGroup element
ThreadGroupTrees(d) ==
    {i \in 1..Len(d) :
        /\ d[i] = O("hashTree")
        /\ \E j \in 1..(i - 1) :
              /\ d[j][2] = "ThreadGroup" /\ d[j][1] \in {"close", "empty"}
              /\ \A k \in (j + 1)..(i - 1) : d[k][1] = "ws"}

\* the positions of a thread group: from its opening to the next opening
GroupSpan(d, i) ==
    {k \in i..Len(d) : \A j \in ThreadGroupTrees(d) : j > i => k < j}

\* the thread group opened at i holds an element named tag
GroupHolds(d, i, tag) ==
    \E k \in GroupSpan(d, i) : d[k][2] = tag /\ d[k][1] # "close"

\* C22: after the repair pass every thread group holds a cookie manager and
\* a cache manager of its own, whatever the other thread groups hold, and a
\* CSV data set when the load profile asks for one.
C22_ManagersInEveryThreadGroup ==
    pc = "repaired" =>
        \A i \in ThreadGroupTrees(doc) :
            /\ endpoint = "har-ai" =>
                  GroupHolds(doc, i, "CookieManager") /\ GroupHolds(doc, i, "CacheManager")
            /\ endpoint = "swagger" /\ loadConfig.addCsvConfig =>
                  GroupHolds(doc, i, "CSVDataSet")

(***************************************************************************)
(* Properties of the bodies the repair pass injects                        *)
(***************************************************************************)
\* the test name of the sampler opened at p is the method and path of e
SamplerNamed(d, p, e) ==
    LET name == Txt(<<e.method, " ">> \o e.path)
    IN /\ p + Len(name) + 1 <= Len(d)
       /\ SubSeq(d, p + 1, p + Len(name)) = name
       /\ d[p + Len(name) + 1] = OE("HTTPSamplerProxy")

\* the sampler opened at p holds an Argument.value with exactly this text
SamplerCarries(d, p, text) ==
    \E i \in (p + 1)..Len(d) :
        /\ d[i] = OA("stringProp", "Argument.value")
        /\ \A j \in p..i : d[j] # C("HTTPSamplerProxy")
        /\ i + Len(text) + 1 <= Len(d)
        /\ SubSeq(d, i + 1, i + Len(text)) = text
        /\ d[i + Len(text) + 1] = C("stringProp")

\* entry e needs its body put into the document d
NeedsBody(d, e) ==
    /\ e.method \in {"POST", "PUT", "PATCH"} /\ e.body # <<>>
    /\ ~IncludesText(d, SubSeq(e.body, 1, Min(50, Len(e.body))))

\* no body of the capture holds a dollar sign
PlainBodies == \A i \in 1..Len(entries) : \A k \in 1..Len(entries[i].body) :
                    entries[i].body[k] # "$"

SamplerBlock(d, k) ==
    LET ps == SamplerPositions(d)
    IN SubSeq(d, ps[k], IF k < Len(ps) THEN ps[k + 1] - 1 ELSE Len(d))

\* the number of elements named tag in a stretch of a document
Elements(b, tag) ==
    Cardinality({i \in 1..Len(b) : b[i][2] = tag /\ b[i][1] \in {"open", "obegin"}})

\* the extractors of a stretch: JSON post-processors and JSON path extractors
Extractors(b) == Elements(b, "JSONPostProcessor") + Elements(b, "JSONPathExtractor")

\* an extractor of the stretch binds the variable name
Binds(b, name) ==
    \/ Includes(b, Prop("stringProp", "JSONPostProcessor.referenceNames", Txt(name)))
    \/ Includes(b, Prop("stringProp", "VAR", Txt(name)))

\* the analysis the serializer of this request is called with
InsightUsed == IF endpoint = "swagger" THEN SwaggerFallbackAnalysis ELSE analysis

\* the correlation fields the analysis declares, as variable names
DeclaredFields ==
    CASE endpoint = "swagger" -> InsightUsed.correlations
      [] endpoint = "enhanced" ->
            [i \in 1..Len(analysis.correlationFields) |->
                analysis.correlationFields[i].field]
      [] OTHER -> analysis.correlationFields

\* the request asks for extractors; a request type without the switch
\* counts as asking for them
ExtractorsWanted == endpoint = "swagger" => loadConfig.addCorrelation

\* C24: every sampler of a returned document is followed by one extractor
\* per declared correlation field, bound to that field's name, when
\* extractors are wanted and fields are declared, and by none otherwise.
C24_ExtractorPerDeclaredField ==
    Produced /\ endpoint \in {"har", "swagger", "enhanced"} =>
        \A k \in 1..Len(SamplerPositions(doc)) :
            IF ExtractorsWanted /\ Len(DeclaredFields) > 0
            THEN /\ Extractors(SamplerBlock(doc, k)) = Len(DeclaredFields)
                 /\ \A f \in 1..Len(DeclaredFields) :
                        Binds(SamplerBlock(doc, k), DeclaredFields[f])
            ELSE Extractors(SamplerBlock(doc, k)) = 0

\* the status codes a stretch lists as string properties
ListedCodes(b) ==
    {c \in {200, 201, 202, 204} :
        \E i \in 1..(Len(b) - 1) :
            b[i][1] = "open" /\ b[i][2] = "stringProp" /\ b[i + 1] = T(ToString(c))}

\* the status codes the analysis expects; 200 and 201 when it names none
ExpectedCodes ==
    IF Len(InsightUsed.statusCodes) > 0
    THEN {InsightUsed.statusCodes[i] : i \in 1..Len(InsightUsed.statusCodes)}
    ELSE {200, 201}

\* the response-time thresholds the analysis recommends
RecommendedThresholds ==
    IF endpoint = "enhanced"
    THEN {analysis.performanceAssertions[i].threshold :
            i \in {j \in 1..Len(analysis.performanceAssertions) :
                     analysis.performanceAssertions[j].type = "response_time"}}
    ELSE {InsightUsed.threshold} \ {0}

\* the request asks for assertions; a request type without the switch
\* counts as asking for them
AssertionsWanted == endpoint = "swagger" => loadConfig.addAssertions

\* C25: every sampler of a returned document is followed by one status-code
\* assertion listing the expected codes (200 and 201 when none are named)
\* and one duration assertion carrying the recommended threshold when there
\* is one, exactly when assertions are wanted.
C25_AssertionsFollowSamplers ==
    Produced /\ endpoint \in {"har", "swagger", "enhanced"} =>
        \A k \in 1..Len(SamplerPositions(doc)) :
            LET b == SamplerBlock(doc, k)
            IN IF AssertionsWanted
               THEN /\ Elements(b, "ResponseAssertion") = 1
                    /\ Elements(b, "DurationAssertion") = 1
                    /\ ListedCodes(b) = ExpectedCodes
                    /\ \A t \in RecommendedThresholds :
                          Includes(b, Prop("stringProp", "DurationAssertion.duration",
                                           Num(t)))
               ELSE Elements(b, "ResponseAssertion") = 0
                    /\ Elements(b, "DurationAssertion") = 0

(***************************************************************************)
(* Properties of the plan's URL variables and the sampler paths            *)
(***************************************************************************)
\* the base URL of the request: the configured one, else the contract's
BaseUrl == IF loadConfig.baseUrl # NoUrl THEN loadConfig.baseUrl ELSE swaggerSpec.serverUrl

\* the port written in a URL string, or the default of its scheme
PortOf(url) ==
    IF \E i \in 1..(Len(url) - 1) : url[i] = ":"
    THEN url[(CHOOSE i \in 1..(Len(url) - 1) : url[i] = ":") + 1]
    ELSE IF url[1] = "https" THEN "443" ELSE "80"

\* the text of the first property named name in a stretch, entities decoded
RECURSIVE Unescape(_)
Unescape(s) ==
    IF s = <<>> THEN <<>>
    ELSE IF Len(s) >= 2 /\ s[1] = "&" /\ s[2] \in EntityTails
    THEN <<CASE s[2] = "lt;" -> "<" [] s[2] = "gt;" -> ">" [] s[2] = "amp;" -> "&"
             [] s[2] = "apos;" -> "'" [] OTHER -> "\"">> \o Unescape(SubSeq(s, 3, Len(s)))
    ELSE <<Head(s)>> \o Unescape(Tail(s))

PropertyValue(b, name) ==
    LET i == CHOOSE i \in 1..Len(b) : b[i] = OA("stringProp", name)
        j == CHOOSE j \in (i + 1)..Len(b) :
                b[j][1] # "text" /\ \A k \in (i + 1)..(j - 1) : b[k][1] = "text"
    IN Unescape([k \in 1..(j - i - 1) |-> b[i + k][2]])

\* C26: the plan variables PROTOCOL, HOST and PORT of a returned document
\* are the scheme, the host name and the port of the base URL (443 for
\* https and 80 otherwise when the URL names none), and the path of every
\* sampler is a path of the contract, its {param} tokens unchanged.
C26_UrlVariablesAndPaths ==
    Produced /\ endpoint \in {"swagger", "enhanced"} /\ Len(BaseUrl) >= 3
             /\ BaseUrl[2] = "://" =>
        /\ Includes(doc, PlanVariable("PROTOCOL", <<T(BaseUrl[1])>>))
        /\ Includes(doc, PlanVariable("HOST", <<T(BaseUrl[3])>>))
        /\ Includes(doc, PlanVariable("PORT", <<T(PortOf(BaseUrl))>>))
        /\ \A k \in 1..Len(SamplerPositions(doc)) :
              \E i \in 1..Len(swaggerSpec.paths) :
                 PropertyValue(SamplerBlock(doc, k), "HTTPSampler.path")
                    = swaggerSpec.paths[i].path

\* a document for the base URL https://api.example.com:8443/v2 with a
\* sampler whose path holds a {param} token
C26_Witness ==
    /\ Produced /\ endpoint = "enhanced"
    /\ BaseUrl = Url("https", "api.example.com", "8443", "/v2")
    /\ Includes(doc, PlanVariable("PORT", <<T("8443")>>))
    /\ \E k \in 1..Len(SamplerPositions(doc)) :
          \E c \in 1..Len(PropertyValue(SamplerBlock(doc, k), "HTTPSampler.path")) :
             PropertyValue(SamplerBlock(doc, k), "HTTPSampler.path")[c] = "{id}"

\* the samplers of d the pattern for method matches and that hold no raw body
BodilessSamplers(d, method) ==
    {p \in 1..Len(d) : IsSamplerStart(d, p, method) /\ ~SamplerHasRawBody(d, p)}

\* the document lacks nothing but the body of its single capture entry, and
\* one sampler is to receive it
LacksOneBody ==
    /\ Len(entries) = 1 /\ NeedsBody(doc, entries[1])
    /\ Mentions(doc, "SummaryReport") /\ Mentions(doc, "ViewResultsFullVisualizer")
    /\ Mentions(doc, "CookieManager") /\ Mentions(doc, "CacheManager")
    /\ Cardinality(BodilessSamplers(doc, entries[1].method)) = 1

\* C27: when the repair pass injects a body into a sampler, the injected
\* Argument.value is exactly the escaped body, whatever characters the body
\* holds, and the document is otherwise unchanged.
C27_InjectedBodyIsEscapedBody ==
    [][HarRepair /\ LacksOneBody =>
        \E i \in 1..Len(doc) :
            doc' = SubSeq(doc, 1, i) \o <<NL, SP>>
                   \o RawBodyArgument("postBodyRaw", Txt(escapeXml(entries[1].body)))
                   \o <<NL, SP>> \o SubSeq(doc, i + 1, Len(doc))]_vars

\* the same for bodies without a dollar sign
InjectedPlainBodyIsEscapedBody ==
    [][HarRepair /\ LacksOneBody /\ PlainBodies =>
        \E i \in 1..Len(doc) :
            doc' = SubSeq(doc, 1, i) \o <<NL, SP>>
                   \o RawBodyArgument("postBodyRaw", Txt(escapeXml(entries[1].body)))
                   \o <<NL, SP>> \o SubSeq(doc, i + 1, Len(doc))]_vars

(***************************************************************************)
(* Properties of the grouping under analyses of any shape                  *)
(***************************************************************************)
\* C28: whatever value the parsing yields as the analysis, the HAR grouping
\* completes without raising and every entry is a member of a group.
C28_GroupingNeverRaises ==
    endpoint = "har" /\ pc = "done" =>
        /\ resp = Ok200
        /\ \A k \in 1..Len(entries) :
              \E g \in 1..Len(groups) :
                 \E m \in 1..Len(groups[g][2]) : groups[g][2][m] = k

(***************************************************************************)
(* Properties of the recommended thread groups                             *)
(***************************************************************************)
\* a recommended group names a path the contract lacks, or has no endpoint list
UnknownEndpoint ==
    \E i \in 1..Len(analysis.recommendedThreadGroups) :
        LET g == analysis.recommendedThreadGroups[i]
        IN \/ ~g.hasEndpoints
           \/ \E j \in 1..Len(g.endpoints) : ~HasPath(swaggerSpec, g.endpoints[j])

\* C29: a recommended group that names a path the contract lacks, or that
\* has no endpoint list, does not make the enhanced serializer fail: a
\* document with a thread group for every recommended group is returned.
C29_UnknownEndpointSkipped ==
    endpoint = "enhanced" /\ pc = "done" /\ analysis.shape = "object" /\ UnknownEndpoint =>
        /\ resp = Ok200
        /\ Count(doc, OB("ThreadGroup")) = Len(analysis.recommendedThreadGroups)

(***************************************************************************)
(* Properties of the client's HAR processing step                          *)
(***************************************************************************)
\* C30: when the har-to-jmeter endpoint answered 200 with a document, the
\* client stores the document and reports success; it reports failure only
\* for an error answer.
C30_ClientStoresDocument ==
    pc = "shown" =>
        /\ resp = Ok200 => harResult = "document"
                           /\ toast = "HAR file processed successfully"
        /\ toast = "Processing failed" => resp.status # 200

====
